---- MODULE Spec2Model ----
(***************************************************************************)
(* Model of the path-acceptance service of cloud/content-generator         *)
(* (PathAcceptanceService.accept_path and its helpers) over a relational   *)
(* datastore.  Every datastore request of accept_path is one atomic step   *)
(* of the call that issues it; an insert either returns the inserted row   *)
(* or returns no row (and then has stored nothing).                        *)
(***************************************************************************)
EXTENDS Integers, Sequences, FiniteSets, TLC

(* ------------------------------ bounds --------------------------------- *)

\* longest submitted node list
MaxNodes == 3

\* the most level-2 nodes that a call running beside another one submits
MaxConcChapters == 2

\* the most jobs of the batch whose status is asked
MaxJobs == 3

\* the most elements of an array in a response text
MaxElems == 2

(* ---------------------------- value spaces ------------------------------ *)

\* Python None for identifiers (persisted ids and path node ids are > 0)
None == 0

\* the calls of accept_path that a behaviour may contain
AllCalls == {"c1", "c2"}

\* node names used by submissions and by the rows already in the store
Names == {"A", "B"}

\* the domains table: rows with id, name and slug.  The rows are chosen so
\* that one reference string is an id of one row and a name of another, and
\* one is a name of one row and a slug of another.
domains ==
  { [id |-> "x", name |-> "y", slug |-> "z"],
    [id |-> "y", name |-> "z", slug |-> "s"] }

\* domain references a caller may send
DomainRefs == {"x", "y", "z", "s", "w"}

\* path nodes: level 0 = domain, 1 = course, 2 = chapter.  Path node ids are
\* unique within a submission (the position in the list).  accept_path never
\* reads the fields of a level-0 node, the parent_id of a level-1 node or the
\* parent_id of a level-2 node marked is_existing, so these are fixed.
NodeShapes(n) ==
  { [name |-> "B", level |-> 0, parent_id |-> None, is_existing |-> FALSE] }
  \cup
  { [name |-> nm, level |-> 1, parent_id |-> None, is_existing |-> e] :
      nm \in Names, e \in BOOLEAN }
  \cup
  { [name |-> "B", level |-> 2, parent_id |-> p, is_existing |-> FALSE] :
      p \in 1..n }
  \cup
  { [name |-> "B", level |-> 2, parent_id |-> 1, is_existing |-> TRUE] }

PathsOfLen(n) ==
  { [i \in 1..n |-> [id          |-> i,
                     name        |-> s[i].name,
                     level       |-> s[i].level,
                     parent_id   |-> s[i].parent_id,
                     is_existing |-> s[i].is_existing]] :
      s \in [1..n -> NodeShapes(n)] }

Paths == UNION { PathsOfLen(n) : n \in 0..MaxNodes }

(* ------------------------------- state ---------------------------------- *)

VARIABLES
  map_nodes,                \* table map_nodes: id -> row
  courses,                  \* table courses: id -> row
  chapters,                 \* table chapters: id -> row
  content_generation_jobs,  \* table content_generation_jobs: id -> row
  slug_column,              \* whether table domains has a slug column
  nextId,                   \* next store-assigned identifier
  nextBatch,                \* next uuid4 drawn for a batch id
  call,                     \* per call of accept_path: its local variables
  batch_status,             \* the last response of get_batch_status
  response_text,            \* the text handed to extract_json_from_llm_response
  extracted,                \* the outcome of extract_json_from_llm_response
  req                       \* per request of a job endpoint: its local variables

vars == <<map_nodes, courses, chapters, content_generation_jobs,
          slug_column, nextId, nextBatch, call,
          batch_status, response_text, extracted, req>>

\* the state that no step of accept_path writes
aside == <<slug_column, batch_status, response_text, extracted, req>>

db == <<map_nodes, courses, chapters, content_generation_jobs>>

\* the tables as a set of (table, id) pairs, to speak about stored records
Records ==
  ({"map_nodes"} \X DOMAIN map_nodes) \cup
  ({"courses"} \X DOMAIN courses) \cup
  ({"chapters"} \X DOMAIN chapters) \cup
  ({"content_generation_jobs"} \X DOMAIN content_generation_jobs)


(* ------------------------------ helpers --------------------------------- *)

\* dict.get(key) with default None
Get(m, k) == IF k \in DOMAIN m THEN m[k] ELSE None

\* the row a select returns when nothing matches (result.data is empty)
NoRow == [id |-> "", name |-> "", slug |-> ""]

\* mutant of get_domain_info: the name lookup runs before the id lookup
get_domain_info_name_first(domain) ==
  LET byId   == { d \in domains : d.id = domain }
      byName == { d \in domains : d.name = domain }
      bySlug == IF slug_column THEN { d \in domains : d.slug = domain } ELSE {}
  IN  IF byName # {} THEN CHOOSE d \in byName : TRUE
      ELSE IF byId # {} THEN CHOOSE d \in byId : TRUE
      ELSE IF bySlug # {} THEN CHOOSE d \in bySlug : TRUE
      ELSE NoRow

\* _get_domain_info: by id, then by name, then by slug (the slug select
\* raises when the column is absent and the exception is swallowed)
get_domain_info(domain) ==
  LET byId   == { d \in domains : d.id = domain }
      byName == { d \in domains : d.name = domain }
      bySlug == IF slug_column THEN { d \in domains : d.slug = domain } ELSE {}
  IN  IF byId # {} THEN CHOOSE d \in byId : TRUE
      ELSE IF byName # {} THEN CHOOSE d \in byName : TRUE
      ELSE IF bySlug # {} THEN CHOOSE d \in bySlug : TRUE
      ELSE NoRow

\* mutant of find_existing_node: the select lacks the domain filter
find_existing_node_any_domain(name, domain_id, depth) ==
  { id \in DOMAIN map_nodes :
      /\ map_nodes[id].name = name
      /\ map_nodes[id].depth = depth }

\* _find_existing_node: the ids of the rows the select returns; the code
\* takes result.data[0], whose choice among several rows the query leaves open
find_existing_node(name, domain_id, depth) ==
  { id \in DOMAIN map_nodes :
      /\ map_nodes[id].name = name
      /\ map_nodes[id].domain_id = domain_id
      /\ map_nodes[id].depth = depth }

\* mutant of level_1_nodes: a single pass over the list, which has handled
\* only the level-1 nodes listed before the first level-2 node when it
\* reaches that node
level_1_nodes_single_pass(nodes) ==
  LET before(i) == \A j \in 1..i : nodes[j].level # 2
  IN  SelectSeq([i \in DOMAIN nodes |->
                   IF before(i) THEN nodes[i]
                   ELSE [nodes[i] EXCEPT !.level = 0]],
                LAMBDA n : n.level = 1)

\* accept_path line 56: the level-1 nodes in submission order
level_1_nodes(nodes) == SelectSeq(nodes, LAMBDA n : n.level = 1)

\* accept_path line 57: the level-2 nodes in submission order
level_2_nodes(nodes) == SelectSeq(nodes, LAMBDA n : n.level = 2)

\* node_data of _create_course_node / _create_chapter_node.  Neither dict has
\* a batch_id key: the batch_id parameter of both functions is never used,
\* so the stored row carries no batch id (None).
node_data(name, domain_id, depth, parent_id, generation_status) ==
  [ name              |-> name,
    domain_id         |-> domain_id,
    depth             |-> depth,
    parent_id         |-> parent_id,
    course_id         |-> None,
    generation_status |-> generation_status,
    generation_job_id |-> None,
    batch_id          |-> None ]

\* course_data of _create_course_node
course_data(name, domain_id) ==
  [ title |-> name, domain_id |-> domain_id, status |-> "draft" ]

\* mutant of xp_reward: the same reward for every chapter
xp_reward_flat(sort_order) == 100 + 25

\* xp_reward of a chapter row
xp_reward(sort_order) == 100 + (sort_order * 25)

\* chapter_data of _create_chapter_node
chapter_data(name, course_id, sort_order) ==
  [ course_id  |-> course_id,
    title      |-> name,
    sort_order |-> sort_order,
    xp_reward  |-> xp_reward(sort_order) ]

\* mutant of job_data: the job references the submitted node id instead of
\* the persisted map node id
job_data_path_node(map_node_id, domain_id, batch_id, path_node_id) ==
  [ node_id          |-> path_node_id,
    generation_type  |-> "chapter_content",
    status           |-> "pending",
    batch_id         |-> batch_id,
    path_node_id     |-> path_node_id,
    domain_id        |-> domain_id,
    progress_percent |-> 0 ]

\* job_data of _create_generation_job
job_data(map_node_id, domain_id, batch_id, path_node_id) ==
  [ node_id          |-> map_node_id,
    generation_type  |-> "chapter_content",
    status           |-> "pending",
    batch_id         |-> batch_id,
    path_node_id     |-> path_node_id,
    domain_id        |-> domain_id,
    progress_percent |-> 0 ]

\* an entry of skipped_nodes
skipped(node, reason) ==
  [ path_node_id |-> node.id, name |-> node.name, reason |-> reason ]

\* an entry of created_nodes (course_id for a course, chapter_id and
\* parent_course_id for a chapter; None where the code has no such key)
created_node(node, map_node_id, type, course_id, chapter_id, parent_course_id) ==
  [ path_node_id     |-> node.id,
    map_node_id      |-> map_node_id,
    name             |-> node.name,
    type             |-> type,
    course_id        |-> course_id,
    chapter_id       |-> chapter_id,
    parent_course_id |-> parent_course_id ]

\* the local variables of a call that has not started
IdleCall ==
  [ pc               |-> "idle",
    domain           |-> "",
    nodes            |-> <<>>,
    batch_id         |-> None,
    domain_id        |-> "",
    level_1_nodes    |-> <<>>,      \* the part of the loop still to run
    level_2_nodes    |-> <<>>,
    node_id_mapping  |-> <<>>,
    created_nodes    |-> <<>>,
    generation_jobs  |-> <<>>,
    skipped_nodes    |-> <<>>,
    map_node_id      |-> None,      \* locals of the node being created
    course_id        |-> None,
    parent_course_id |-> None,
    sort_order       |-> 0,
    job_id           |-> None,
    error            |-> "none",
    inserted         |-> {},        \* history: the rows this call inserted
    no_data          |-> {} ]       \* history: tables whose insert gave no row

\* control after the level-1 loop body: next iteration, or the level-2 loop,
\* or the return statement when both loops are exhausted
AfterLevel1(rest1, l2) ==
  IF rest1 # <<>> THEN "level_1"
  ELSE IF l2 # <<>> THEN "level_2" ELSE "returned"

AfterLevel2(rest2) == IF rest2 # <<>> THEN "level_2" ELSE "returned"

\* raise ValueError(...) out of accept_path: the call's variables afterwards
Raise(cr, error) == [cr EXCEPT !.pc = "raised", !.error = error]

\* history: an insert into the table returned no row (result.data is empty)
NoData(cr, table) == [cr EXCEPT !.no_data = @ \cup {table}]

(* ------------------------------- Init ----------------------------------- *)

\* The store before the calls: in domain "x" a course node "A" (id 1) linked to
\* course 3 that has one chapter (id 4), and a chapter node "B" (id 2) whose
\* content job (id 5) belongs to an earlier batch (batch id 1).
stored_map_nodes ==
  (1 :> [node_data("A", "x", 1, None, "none") EXCEPT !.course_id = 3]) @@
  (2 :> [node_data("B", "x", 2, 1, "ready") EXCEPT !.generation_job_id = 5])

stored_courses == (3 :> course_data("A", "x"))

stored_chapters == (4 :> chapter_data("B", 3, 1))

stored_jobs ==
  (5 :> [job_data(2, "x", 1, 1) EXCEPT !.status = "completed",
                                       !.progress_percent = 100])

\* no response of get_batch_status yet
NoStatus ==
  [ batch_id         |-> None,
    overall_progress |-> 0,
    completed_count  |-> 0,
    failed_count     |-> 0,
    total_count      |-> 0,
    all_completed    |-> FALSE,
    jobs             |-> {} ]

\* extract_json_from_llm_response has not run
NoResult == [ status |-> "none", step |-> 0, value |-> <<>> ]

\* the requests of the job endpoints that a behaviour may contain
AllRequests == {"r1", "r2"}

\* a request slot that serves no request
IdleRequest ==
  [ pc       |-> "idle",
    endpoint |-> "",
    job_id   |-> None,       \* the job the request works on
    node_id  |-> None,       \* the node of a /content/generate request
    type     |-> "",         \* generation_type of the request or of the job
    context  |-> None,       \* the node id in the job's prompt_context
    jobs     |-> <<>>,       \* accept endpoint: the jobs still to start
    code     |-> 0,          \* HTTP status of the response, 0 before it
    error    |-> "",         \* the error of the response
    served   |-> 0 ]         \* how many requests the slot has served

\* no status request, no extraction and no job request are in progress
InitAside ==
  /\ batch_status = NoStatus
  /\ response_text = <<>>
  /\ extracted = NoResult
  /\ req = [r \in AllRequests |-> IdleRequest]

Init ==
  /\ map_nodes = stored_map_nodes
  /\ courses = stored_courses
  /\ chapters = stored_chapters
  /\ content_generation_jobs = stored_jobs
  /\ slug_column \in BOOLEAN
  /\ nextId = 6
  /\ nextBatch = 2
  /\ call = [c \in AllCalls |-> IdleCall]
  /\ InitAside


(* ------------------------ accept_path, step by step ---------------------- *)

\* accept_path lines 35-38: the call starts on a submission and a domain
\* reference drawn from the given sets; the batch id is drawn
Start(c, paths, refs) ==
  /\ call[c].pc = "idle"
  /\ \E path \in paths, domain \in refs :
       call' = [call EXCEPT ![c].pc = "domain",
                            ![c].batch_id = nextBatch,
                            ![c].nodes = path,
                            ![c].domain = domain]
  /\ nextBatch' = nextBatch + 1
  /\ UNCHANGED <<db, aside, nextId>>

\* accept_path lines 41-57: resolve the domain, then partition the nodes
ResolveDomain(c) ==
  /\ call[c].pc = "domain"
  /\ LET domain_info == get_domain_info(call[c].domain)
         l1 == level_1_nodes(call[c].nodes)
         l2 == level_2_nodes(call[c].nodes)
     IN  IF domain_info = NoRow
         THEN call' = [call EXCEPT ![c] = Raise(@, "DomainNotFound")]
         ELSE call' = [call EXCEPT ![c].domain_id = domain_info.id,
                                   ![c].level_1_nodes = l1,
                                   ![c].level_2_nodes = l2,
                                   ![c].pc = AfterLevel1(l1, l2)]
  /\ UNCHANGED <<db, aside, nextId, nextBatch>>

\* accept_path lines 61-71: a level-1 node marked is_existing
Level1Existing(c) ==
  /\ call[c].pc = "level_1"
  /\ LET node == Head(call[c].level_1_nodes)
         rest == Tail(call[c].level_1_nodes)
         found == find_existing_node(node.name, call[c].domain_id, 1)
     IN  /\ node.is_existing
         /\ \E existing \in (IF found = {} THEN {None} ELSE found) :
              call' = [call EXCEPT
                ![c].skipped_nodes = Append(@, skipped(node, "already_exists")),
                ![c].node_id_mapping =
                   IF existing # None THEN (node.id :> existing) @@ @ ELSE @,
                ![c].level_1_nodes = rest,
                ![c].pc = AfterLevel1(rest, call[c].level_2_nodes)]
  /\ UNCHANGED <<db, aside, nextId, nextBatch>>

\* _create_course_node lines 184-201: insert the map node of a course
CreateCourseNode(c) ==
  /\ call[c].pc = "level_1"
  /\ LET node == Head(call[c].level_1_nodes)
     IN  /\ ~node.is_existing
         /\ \E ok \in BOOLEAN :
              IF ok
              THEN /\ map_nodes' = (nextId :>
                        node_data(node.name, call[c].domain_id, 1, None, "none"))
                        @@ map_nodes
                   /\ nextId' = nextId + 1
                   /\ call' = [call EXCEPT
                        ![c].map_node_id = nextId,
                        ![c].inserted = @ \cup {<<"map_nodes", nextId>>},
                        ![c].pc = "course_insert"]
              ELSE /\ call' = [call EXCEPT ![c] =
                        Raise(NoData(@, "map_nodes"), "PersistenceFailure")]
                   /\ UNCHANGED <<map_nodes, nextId>>
  /\ UNCHANGED <<courses, chapters, content_generation_jobs,
                 aside, nextBatch>>

\* _create_course_node lines 204-214: insert the course record
InsertCourse(c) ==
  /\ call[c].pc = "course_insert"
  /\ LET node == Head(call[c].level_1_nodes)
     IN  \E ok \in BOOLEAN :
           IF ok
           THEN /\ courses' = (nextId :> course_data(node.name, call[c].domain_id))
                                @@ courses
                /\ nextId' = nextId + 1
                /\ call' = [call EXCEPT
                     ![c].course_id = nextId,
                     ![c].inserted = @ \cup {<<"courses", nextId>>},
                     ![c].pc = "course_link"]
           ELSE /\ call' = [call EXCEPT ![c] =
                     [NoData(@, "courses") EXCEPT !.course_id = None,
                                                  !.pc = "course_link"]]
                /\ UNCHANGED <<courses, nextId>>
  /\ UNCHANGED <<map_nodes, chapters, content_generation_jobs,
                 aside, nextBatch>>

\* mutant of LinkCourse: the map node is not updated with the course id
LinkCourseUnlinked(c) ==
  /\ call[c].pc = "course_link"
  /\ LET node == Head(call[c].level_1_nodes)
         rest == Tail(call[c].level_1_nodes)
         id   == call[c].map_node_id
     IN  call' = [call EXCEPT
              ![c].created_nodes = Append(@,
                 created_node(node, id, "course", call[c].course_id, None, None)),
              ![c].node_id_mapping = (node.id :> id) @@ @,
              ![c].map_node_id = None,
              ![c].course_id = None,
              ![c].level_1_nodes = rest,
              ![c].pc = AfterLevel1(rest, call[c].level_2_nodes)]
  /\ UNCHANGED <<db, aside, nextId, nextBatch>>

\* _create_course_node lines 217-232 and accept_path lines 81-82: link the
\* course to the map node, then record the created node and its mapping
LinkCourse(c) ==
  /\ call[c].pc = "course_link"
  /\ LET node == Head(call[c].level_1_nodes)
         rest == Tail(call[c].level_1_nodes)
         id   == call[c].map_node_id
     IN  /\ map_nodes' = IF call[c].course_id # None
                         THEN [map_nodes EXCEPT ![id].course_id = call[c].course_id]
                         ELSE map_nodes
         /\ call' = [call EXCEPT
              ![c].created_nodes = Append(@,
                 created_node(node, id, "course", call[c].course_id, None, None)),
              ![c].node_id_mapping = (node.id :> id) @@ @,
              ![c].map_node_id = None,
              ![c].course_id = None,
              ![c].level_1_nodes = rest,
              ![c].pc = AfterLevel1(rest, call[c].level_2_nodes)]
  /\ UNCHANGED <<courses, chapters, content_generation_jobs,
                 aside, nextId, nextBatch>>


\* accept_path lines 98-99: the persisted id of the node's parent, or None
parent_map_node_id(c, node) == Get(call[c].node_id_mapping, node.parent_id)

\* mutant of Level2Existing: the node is passed over without a skip entry
Level2ExistingUnrecorded(c) ==
  /\ call[c].pc = "level_2"
  /\ LET node == Head(call[c].level_2_nodes)
         rest == Tail(call[c].level_2_nodes)
     IN  /\ node.is_existing
         /\ call' = [call EXCEPT
              ![c].level_2_nodes = rest,
              ![c].pc = AfterLevel2(rest)]
  /\ UNCHANGED <<db, aside, nextId, nextBatch>>

\* accept_path lines 89-95: a level-2 node marked is_existing
Level2Existing(c) ==
  /\ call[c].pc = "level_2"
  /\ LET node == Head(call[c].level_2_nodes)
         rest == Tail(call[c].level_2_nodes)
     IN  /\ node.is_existing
         /\ call' = [call EXCEPT
              ![c].skipped_nodes = Append(@, skipped(node, "already_exists")),
              ![c].level_2_nodes = rest,
              ![c].pc = AfterLevel2(rest)]
  /\ UNCHANGED <<db, aside, nextId, nextBatch>>

\* mutant of ParentNotFound: the node is passed over without a skip entry
ParentNotFoundUnrecorded(c) ==
  /\ call[c].pc = "level_2"
  /\ LET node == Head(call[c].level_2_nodes)
         rest == Tail(call[c].level_2_nodes)
     IN  /\ ~node.is_existing
         /\ parent_map_node_id(c, node) = None
         /\ call' = [call EXCEPT
              ![c].level_2_nodes = rest,
              ![c].pc = AfterLevel2(rest)]
  /\ UNCHANGED <<db, aside, nextId, nextBatch>>

\* accept_path lines 101-108: the parent is not in the mapping
ParentNotFound(c) ==
  /\ call[c].pc = "level_2"
  /\ LET node == Head(call[c].level_2_nodes)
         rest == Tail(call[c].level_2_nodes)
     IN  /\ ~node.is_existing
         /\ parent_map_node_id(c, node) = None
         /\ call' = [call EXCEPT
              ![c].skipped_nodes = Append(@, skipped(node, "parent_not_found")),
              ![c].level_2_nodes = rest,
              ![c].pc = AfterLevel2(rest)]
  /\ UNCHANGED <<db, aside, nextId, nextBatch>>

\* _create_chapter_node lines 245-248: read the parent's course_id
SelectParentCourse(c) ==
  /\ call[c].pc = "level_2"
  /\ LET node   == Head(call[c].level_2_nodes)
         parent == parent_map_node_id(c, node)
     IN  /\ ~node.is_existing
         /\ parent # None
         /\ call' = [call EXCEPT
              ![c].parent_course_id =
                 IF parent \in DOMAIN map_nodes
                 THEN map_nodes[parent].course_id ELSE None,
              ![c].pc = "chapter_node"]
  /\ UNCHANGED <<db, aside, nextId, nextBatch>>

\* _create_chapter_node lines 291-302 and accept_path lines 119-120: the
\* call's variables once the chapter node is created with this chapter_id
ChapterCreated(c, map_node_id, chapter_id) ==
  LET node == Head(call[c].level_2_nodes)
  IN  [call[c] EXCEPT
         !.created_nodes = Append(@,
            created_node(node, map_node_id, "chapter", None, chapter_id,
                         call[c].parent_course_id)),
         !.node_id_mapping = (node.id :> map_node_id) @@ @,
         !.map_node_id = map_node_id,
         !.pc = "job_insert"]

\* _create_chapter_node lines 250-270 (and 288-289 when the parent has no
\* course): insert the map node of a chapter
CreateChapterNode(c) ==
  /\ call[c].pc = "chapter_node"
  /\ LET node   == Head(call[c].level_2_nodes)
         parent == parent_map_node_id(c, node)
     IN  \E ok \in BOOLEAN :
           IF ok
           THEN /\ map_nodes' = (nextId :>
                     node_data(node.name, call[c].domain_id, 2, parent, "pending"))
                     @@ map_nodes
                /\ nextId' = nextId + 1
                /\ call' = [call EXCEPT ![c] =
                     [(IF call[c].parent_course_id # None
                       THEN [call[c] EXCEPT !.map_node_id = nextId,
                                            !.pc = "chapter_count"]
                       ELSE ChapterCreated(c, nextId, None))
                      EXCEPT !.inserted = @ \cup {<<"map_nodes", nextId>>}]]
           ELSE /\ call' = [call EXCEPT ![c] =
                     Raise(NoData(@, "map_nodes"), "PersistenceFailure")]
                /\ UNCHANGED <<map_nodes, nextId>>
  /\ UNCHANGED <<courses, chapters, content_generation_jobs,
                 aside, nextBatch>>

\* mutant of CountChapters: the count is the one of the store before the calls
CountChaptersStale(c) ==
  /\ call[c].pc = "chapter_count"
  /\ LET chapters_result ==
           { id \in DOMAIN stored_chapters :
               stored_chapters[id].course_id = call[c].parent_course_id }
     IN  call' = [call EXCEPT ![c].sort_order = Cardinality(chapters_result) + 1,
                              ![c].pc = "chapter_insert"]
  /\ UNCHANGED <<db, aside, nextId, nextBatch>>

\* _create_chapter_node lines 272-275: count the course's chapters
CountChapters(c) ==
  /\ call[c].pc = "chapter_count"
  /\ LET chapters_result ==
           { id \in DOMAIN chapters :
               chapters[id].course_id = call[c].parent_course_id }
     IN  call' = [call EXCEPT ![c].sort_order = Cardinality(chapters_result) + 1,
                              ![c].pc = "chapter_insert"]
  /\ UNCHANGED <<db, aside, nextId, nextBatch>>

\* _create_chapter_node lines 277-287: insert the chapter record
InsertChapter(c) ==
  /\ call[c].pc = "chapter_insert"
  /\ LET node == Head(call[c].level_2_nodes)
     IN  \E ok \in BOOLEAN :
           IF ok
           THEN /\ chapters' = (nextId :>
                     chapter_data(node.name, call[c].parent_course_id,
                                  call[c].sort_order)) @@ chapters
                /\ nextId' = nextId + 1
                /\ call' = [call EXCEPT ![c] =
                     [ChapterCreated(c, call[c].map_node_id, nextId)
                      EXCEPT !.inserted = @ \cup {<<"chapters", nextId>>},
                             !.sort_order = 0]]
           ELSE /\ call' = [call EXCEPT ![c] =
                     [NoData(ChapterCreated(c, call[c].map_node_id, None),
                             "chapters")
                      EXCEPT !.sort_order = 0]]
                /\ UNCHANGED <<chapters, nextId>>
  /\ UNCHANGED <<map_nodes, courses, content_generation_jobs,
                 aside, nextBatch>>

\* mutant of InsertJob: when the insert returns no row, the map node of the
\* chapter is deleted again before the call raises
InsertJobRollback(c) ==
  /\ call[c].pc = "job_insert"
  /\ LET node == Head(call[c].level_2_nodes)
     IN  \E ok \in BOOLEAN :
           IF ok
           THEN /\ content_generation_jobs' = (nextId :>
                     job_data(call[c].map_node_id, call[c].domain_id,
                              call[c].batch_id, node.id))
                     @@ content_generation_jobs
                /\ nextId' = nextId + 1
                /\ call' = [call EXCEPT
                     ![c].job_id = nextId,
                     ![c].inserted = @ \cup {<<"content_generation_jobs", nextId>>},
                     ![c].pc = "job_link"]
                /\ UNCHANGED map_nodes
           ELSE /\ call' = [call EXCEPT ![c] =
                     Raise(NoData(@, "content_generation_jobs"),
                           "PersistenceFailure")]
                /\ map_nodes' = [id \in DOMAIN map_nodes \ {call[c].map_node_id}
                                   |-> map_nodes[id]]
                /\ UNCHANGED <<content_generation_jobs, nextId>>
  /\ UNCHANGED <<courses, chapters, aside, nextBatch>>

\* mutant of InsertJob: an insert that returns no row is tolerated like the
\* course insert, and the call goes on without a job id
InsertJobTolerant(c) ==
  /\ call[c].pc = "job_insert"
  /\ LET node == Head(call[c].level_2_nodes)
     IN  \E ok \in BOOLEAN :
           IF ok
           THEN /\ content_generation_jobs' = (nextId :>
                     job_data(call[c].map_node_id, call[c].domain_id,
                              call[c].batch_id, node.id))
                     @@ content_generation_jobs
                /\ nextId' = nextId + 1
                /\ call' = [call EXCEPT
                     ![c].job_id = nextId,
                     ![c].inserted = @ \cup {<<"content_generation_jobs", nextId>>},
                     ![c].pc = "job_link"]
           ELSE /\ call' = [call EXCEPT ![c] =
                     [NoData(@, "content_generation_jobs")
                      EXCEPT !.job_id = None, !.pc = "job_link"]]
                /\ UNCHANGED <<content_generation_jobs, nextId>>
  /\ UNCHANGED <<map_nodes, courses, chapters, aside, nextBatch>>

\* _create_generation_job lines 314-330: insert the generation job
InsertJob(c) ==
  /\ call[c].pc = "job_insert"
  /\ LET node == Head(call[c].level_2_nodes)
     IN  \E ok \in BOOLEAN :
           IF ok
           THEN /\ content_generation_jobs' = (nextId :>
                     job_data(call[c].map_node_id, call[c].domain_id,
                              call[c].batch_id, node.id))
                     @@ content_generation_jobs
                /\ nextId' = nextId + 1
                /\ call' = [call EXCEPT
                     ![c].job_id = nextId,
                     ![c].inserted = @ \cup {<<"content_generation_jobs", nextId>>},
                     ![c].pc = "job_link"]
           ELSE /\ call' = [call EXCEPT ![c] =
                     Raise(NoData(@, "content_generation_jobs"),
                           "PersistenceFailure")]
                /\ UNCHANGED <<content_generation_jobs, nextId>>
  /\ UNCHANGED <<map_nodes, courses, chapters, aside, nextBatch>>

\* _create_generation_job lines 333-343 and accept_path line 131: reference
\* the job from the map node, then record the job
LinkJob(c) ==
  /\ call[c].pc = "job_link"
  /\ LET node == Head(call[c].level_2_nodes)
         rest == Tail(call[c].level_2_nodes)
         id   == call[c].map_node_id
     IN  /\ map_nodes' = [map_nodes EXCEPT
              ![id].generation_job_id = call[c].job_id,
              ![id].generation_status = "pending"]
         /\ call' = [call EXCEPT
              ![c].generation_jobs = Append(@,
                 [job_id |-> call[c].job_id, node_id |-> id,
                  node_name |-> node.name, status |-> "pending"]),
              ![c].map_node_id = None,
              ![c].parent_course_id = None,
              ![c].job_id = None,
              ![c].level_2_nodes = rest,
              ![c].pc = AfterLevel2(rest)]
  /\ UNCHANGED <<courses, chapters, content_generation_jobs,
                 aside, nextId, nextBatch>>

(* --------------------------- specification ------------------------------ *)

\* one call of accept_path on any submission and any domain reference
Next ==
  \/ Start("c1", Paths, DomainRefs)
  \/ ResolveDomain("c1")
  \/ Level1Existing("c1")
  \/ CreateCourseNode("c1")
  \/ InsertCourse("c1")
  \/ LinkCourse("c1")
  \/ Level2Existing("c1")
  \/ ParentNotFound("c1")
  \/ SelectParentCourse("c1")
  \/ CreateChapterNode("c1")
  \/ CountChapters("c1")
  \/ InsertChapter("c1")
  \/ InsertJob("c1")
  \/ LinkJob("c1")

Spec == Init /\ [][Next]_vars


(* ------------------------- vocabulary of the claims ---------------------- *)

\* the elements of a sequence
Range(seq) == { seq[i] : i \in DOMAIN seq }

\* the path node ids listed in created_nodes / skipped_nodes of a call
CreatedIds(c) == { e.path_node_id : e \in Range(call[c].created_nodes) }
SkippedIds(c) == { e.path_node_id : e \in Range(call[c].skipped_nodes) }

\* the path node ids skipped with the given reason
SkippedFor(c, reason) ==
  { e.path_node_id : e \in { k \in Range(call[c].skipped_nodes) : k.reason = reason } }

\* the submitted nodes of a level
Submitted(c, level) == { n \in Range(call[c].nodes) : n.level = level }

\* the call is inside the level-2 loop or past it
InLevel2(c) ==
  call[c].pc \in {"level_2", "chapter_node", "chapter_count", "chapter_insert",
                  "job_insert", "job_link"}

\* the rows of a table that the call inserted
InsertedIn(c, table) == { r[2] : r \in { q \in call[c].inserted : q[1] = table } }

(* -------------------------------- C1 ------------------------------------ *)

\* C1: every level-1 node of the submission is processed (created or
\* skipped) before any level-2 node is examined, whatever the order of the
\* list; and when the call returns, every non-existing level-2 node whose
\* parent_id names a non-existing level-1 node of the submission has been
\* created, also when it is listed before that parent.
C1_Level1BeforeLevel2 ==
  \A c \in AllCalls :
    /\ InLevel2(c) =>
         \A a \in Submitted(c, 1) : a.id \in CreatedIds(c) \cup SkippedIds(c)
    /\ (\E a \in Submitted(c, 1) : a.id \notin CreatedIds(c) \cup SkippedIds(c)) =>
         \A b \in Submitted(c, 2) : b.id \notin CreatedIds(c) \cup SkippedIds(c)
    /\ call[c].pc = "returned" =>
         \A b \in Submitted(c, 2), a \in Submitted(c, 1) :
           (~b.is_existing /\ ~a.is_existing /\ b.parent_id = a.id) =>
             /\ b.id \in CreatedIds(c)
             /\ Get(call[c].node_id_mapping, a.id) # None

\* C1 witness: a returned call whose first node is a non-existing level-2
\* node, created although its non-existing level-1 parent is listed after it
C1_Witness ==
  /\ call["c1"].pc = "returned"
  /\ Len(call["c1"].nodes) >= 2
  /\ call["c1"].nodes[1].level = 2
  /\ ~call["c1"].nodes[1].is_existing
  /\ call["c1"].nodes[1].parent_id = 2
  /\ call["c1"].nodes[2].level = 1
  /\ ~call["c1"].nodes[2].is_existing
  /\ 1 \in CreatedIds("c1")


(* -------------------------------- C2 ------------------------------------ *)

\* the jobs stored for a path node of the call's batch
JobsOfPathNode(c, id) ==
  { j \in DOMAIN content_generation_jobs :
      /\ content_generation_jobs[j].batch_id = call[c].batch_id
      /\ content_generation_jobs[j].path_node_id = id }

\* C2: a non-existing level-2 node whose parent_id is not the id of a
\* level-1 node of the submission (also when it is the id of another level-2
\* node) is never created and gets no job, and once the call has returned it
\* is listed in skipped_nodes with reason parent_not_found.
C2_OrphanLevel2Skipped ==
  \A c \in AllCalls :
    \A b \in Submitted(c, 2) :
      (~b.is_existing /\ b.parent_id \notin { a.id : a \in Submitted(c, 1) }) =>
        /\ b.id \notin CreatedIds(c)
        /\ JobsOfPathNode(c, b.id) = {}
        /\ call[c].pc = "returned" => b.id \in SkippedFor(c, "parent_not_found")


(* -------------------------------- C3 ------------------------------------ *)

\* the step of call c that examines the level-2 node at the head of its loop
ExaminesLevel2(c) == call[c].pc = "level_2" /\ call'[c] # call[c]

\* the step skips the node with reason parent_not_found, inserts nothing
\* and goes on with the next node
SkipsParentNotFound(c) ==
  LET node == Head(call[c].level_2_nodes)
  IN  /\ call'[c].skipped_nodes =
           Append(call[c].skipped_nodes, skipped(node, "parent_not_found"))
      /\ call'[c].created_nodes = call[c].created_nodes
      /\ call'[c].inserted = call[c].inserted
      /\ db' = db
      /\ call'[c].level_2_nodes = Tail(call[c].level_2_nodes)
      /\ call'[c].pc = AfterLevel2(Tail(call[c].level_2_nodes))

\* a level-2 node is being created only with a parent that the mapping resolves
CreatesOnlyResolved(c) ==
  /\ (ExaminesLevel2(c) /\ call'[c].pc = "chapter_node") =>
        Get(call[c].node_id_mapping, Head(call[c].level_2_nodes).parent_id) # None
  /\ call[c].pc \in {"chapter_node", "chapter_count", "chapter_insert"} =>
        Get(call[c].node_id_mapping, Head(call[c].level_2_nodes).parent_id) # None

\* C3 as stated: a level-2 node is created only if its parent_id resolves in
\* the mapping when it is processed; every level-2 node whose parent_id does
\* not resolve is skipped with reason parent_not_found, nothing is inserted
\* for it and processing continues.
C3_AsStated ==
  [][ \A c \in AllCalls :
        /\ CreatesOnlyResolved(c)
        /\ (/\ ExaminesLevel2(c)
            /\ Get(call[c].node_id_mapping,
                   Head(call[c].level_2_nodes).parent_id) = None)
           => SkipsParentNotFound(c) ]_vars

\* C3 amended: the same for the level-2 nodes not marked is_existing (a node
\* marked is_existing is skipped as already_exists before any parent lookup).
C3_UnresolvedParentSkipped ==
  [][ \A c \in AllCalls :
        /\ CreatesOnlyResolved(c)
        /\ (ExaminesLevel2(c) /\ call'[c].pc = "chapter_node") =>
              ~Head(call[c].level_2_nodes).is_existing
        /\ (/\ ExaminesLevel2(c)
            /\ ~Head(call[c].level_2_nodes).is_existing
            /\ Get(call[c].node_id_mapping,
                   Head(call[c].level_2_nodes).parent_id) = None)
           => SkipsParentNotFound(c) ]_vars

\* C3 witness: the first level-2 node was skipped for parent_not_found and a
\* level-2 node after it was created by the same call
C3_Witness ==
  /\ call["c1"].pc = "returned"
  /\ Len(call["c1"].nodes) >= 1
  /\ call["c1"].nodes[1].level = 2
  /\ 1 \in SkippedFor("c1", "parent_not_found")
  /\ \E e \in Range(call["c1"].created_nodes) : e.type = "chapter"


(* -------------------------------- C4 ------------------------------------ *)

\* the depth-2 map nodes the call inserted
ChapterNodesOf(c) ==
  { id \in InsertedIn(c, "map_nodes") : map_nodes[id].depth = 2 }

\* the job records that reference a map node
JobsOfNode(id) ==
  { j \in DOMAIN content_generation_jobs :
      content_generation_jobs[j].node_id = id }

Started == { c \in AllCalls : call[c].pc # "idle" }

\* C5: each call draws one batch id of its own, and every map node record
\* and every job record the call inserted carries that id, and no other
\* record does.
C5_BatchIdOnEveryRecord ==
  /\ \A c, d \in Started : c # d => call[c].batch_id # call[d].batch_id
  /\ \A c \in Started :
       /\ call[c].batch_id # None
       /\ \A id \in DOMAIN map_nodes :
            (map_nodes[id].batch_id = call[c].batch_id)
              <=> (id \in InsertedIn(c, "map_nodes"))
       /\ \A j \in DOMAIN content_generation_jobs :
            (content_generation_jobs[j].batch_id = call[c].batch_id)
              <=> (j \in InsertedIn(c, "content_generation_jobs"))

(* -------------------------------- C6 ------------------------------------ *)

\* the id is listed in exactly one of skipped_nodes and created_nodes
InExactlyOne(c, id) == (id \in CreatedIds(c)) # (id \in SkippedIds(c))

\* C6 as stated: after a successful call every submitted node is listed in
\* exactly one of skipped_nodes and created_nodes.
C6_AsStated ==
  \A c \in AllCalls :
    call[c].pc = "returned" =>
      \A n \in Range(call[c].nodes) : InExactlyOne(c, n.id)

\* C6 amended: after a successful call every submitted node of level 1 or 2
\* is listed in exactly one of skipped_nodes and created_nodes, once; a node
\* of another level is listed in neither.
C6_SkippedOrCreated ==
  \A c \in AllCalls :
    call[c].pc = "returned" =>
      /\ \A n \in Submitted(c, 1) \cup Submitted(c, 2) : InExactlyOne(c, n.id)
      /\ \A n \in Submitted(c, 0) : n.id \notin CreatedIds(c) \cup SkippedIds(c)
      /\ Len(call[c].created_nodes) + Len(call[c].skipped_nodes)
           = Cardinality(Submitted(c, 1) \cup Submitted(c, 2))

\* C6 witness: a returned call that created a node and skipped another
C6_Witness ==
  /\ call["c1"].pc = "returned"
  /\ CreatedIds("c1") # {}
  /\ SkippedFor("c1", "already_exists") # {}
  /\ SkippedFor("c1", "parent_not_found") # {}


(* -------------------------------- C7 ------------------------------------ *)

\* the domain rows a reference matches as an id, as a name, as a slug
MatchesId(ref)   == { d \in domains : d.id = ref }
MatchesName(ref) == { d \in domains : d.name = ref }
MatchesSlug(ref) == { d \in domains : slug_column /\ d.slug = ref }

\* the store holds exactly the rows it held before the call
StoreUntouched ==
  /\ map_nodes = stored_map_nodes
  /\ courses = stored_courses
  /\ chapters = stored_chapters
  /\ content_generation_jobs = stored_jobs

\* C7: once the domain lookup of a call is over, the call works on the
\* domain whose id is the reference, else on the one whose name is the
\* reference, else on the one whose slug is the reference; when no row
\* matches it has raised DomainNotFound and the store is untouched.
C7_DomainResolution ==
  \A c \in AllCalls :
    call[c].pc \notin {"idle", "domain"} =>
      LET ref == call[c].domain
      IN  /\ MatchesId(ref) # {} =>
               \E d \in MatchesId(ref) : call[c].domain_id = d.id
          /\ (MatchesId(ref) = {} /\ MatchesName(ref) # {}) =>
               \E d \in MatchesName(ref) : call[c].domain_id = d.id
          /\ (MatchesId(ref) = {} /\ MatchesName(ref) = {}
                /\ MatchesSlug(ref) # {}) =>
               \E d \in MatchesSlug(ref) : call[c].domain_id = d.id
          /\ (MatchesId(ref) \cup MatchesName(ref) \cup MatchesSlug(ref) # {})
               => call[c].error # "DomainNotFound"
          /\ (MatchesId(ref) \cup MatchesName(ref) \cup MatchesSlug(ref) = {})
               => /\ call[c].pc = "raised"
                  /\ call[c].error = "DomainNotFound"
                  /\ call[c].inserted = {}
                  /\ StoreUntouched

\* C7 witness: a reference that is the name of one domain and the slug of
\* another was resolved, and the call went on to insert records
C7_Witness ==
  /\ slug_column
  /\ call["c1"].domain = "z"
  /\ call["c1"].pc = "returned"
  /\ call["c1"].inserted # {}

\* C7 second case reached: a reference that matches nothing was rejected
C7_NotFoundReached ==
  /\ call["c1"].pc = "raised"
  /\ call["c1"].error = "DomainNotFound"

(* -------------------------------- C8 ------------------------------------ *)

\* C8 as stated: whenever an insert of the call returned no record, whatever
\* the table, the call has raised PersistenceFailure.
C8_AsStated ==
  \A c \in AllCalls :
    call[c].no_data # {} =>
      call[c].pc = "raised" /\ call[c].error = "PersistenceFailure"

\* C8 amended: whenever a map node insert or a generation job insert of the
\* call returned no record, the call has raised PersistenceFailure, and a
\* call raises PersistenceFailure for no other reason; an insert of a course
\* or chapter that returned no record does not raise.
C8_RequiredInsertsRaise ==
  \A c \in AllCalls :
    /\ (call[c].no_data \cap {"map_nodes", "content_generation_jobs"} # {})
         <=> (call[c].pc = "raised" /\ call[c].error = "PersistenceFailure")
    /\ call[c].no_data \subseteq
         {"map_nodes", "courses", "chapters", "content_generation_jobs"}

\* C8 witness: a job insert returned no record and the call raised
C8_Witness ==
  /\ "content_generation_jobs" \in call["c1"].no_data
  /\ call["c1"].pc = "raised"

\* C8: the tolerated case is reached: a course and a chapter insert returned
\* no record and the call returned all the same
C8_ToleratedReached ==
  /\ {"courses", "chapters"} \subseteq call["c1"].no_data
  /\ call["c1"].pc = "returned"


(* -------------------------------- C9 ------------------------------------ *)

\* the ids of the rows of the four tables
RowIds == <<DOMAIN map_nodes, DOMAIN courses, DOMAIN chapters,
            DOMAIN content_generation_jobs>>

\* C9: the step in which a call raises PersistenceFailure inserts and
\* removes nothing, a call that has raised takes no further step (so makes
\* no further insert), and every row a call has inserted is still stored:
\* no step removes a row.
C9_NoRollback ==
  [][ \A c \in AllCalls :
        /\ (call[c].pc # "raised" /\ call'[c].pc = "raised") =>
              /\ RowIds' = RowIds
              /\ call'[c].inserted = call[c].inserted
        /\ call[c].pc = "raised" => call'[c] = call[c]
        /\ call[c].inserted \subseteq call'[c].inserted
        /\ call'[c].inserted \subseteq Records'
        /\ Records \subseteq Records' ]_vars

\* C9 witness: a call raised PersistenceFailure at a later node and the rows
\* of the nodes before it are stored
C9_Witness ==
  /\ call["c1"].pc = "raised"
  /\ call["c1"].error = "PersistenceFailure"
  /\ call["c1"].created_nodes # <<>>
  /\ call["c1"].inserted # {}
  /\ call["c1"].inserted \subseteq Records

(* -------------------------------- C10 ----------------------------------- *)

\* the row is a depth-1 node of that name in that domain
IsCourseNode(row, name, domain_id) ==
  row.name = name /\ row.domain_id = domain_id /\ row.depth = 1

\* C10: once a call has returned, each level-1 node marked is_existing is
\* listed as skipped (already_exists) and not as created, no map node or
\* course was inserted for it, its id is mapped whenever the store held a
\* depth-1 node of its name and domain before the call, the id it is mapped
\* to is a stored depth-1 node of that name and domain, and each of its
\* non-existing level-2 children was created with that node as parent.
C10_ExistingLevel1Mapped ==
  \A c \in AllCalls :
    call[c].pc = "returned" =>
      /\ Cardinality({ id \in InsertedIn(c, "map_nodes") : map_nodes[id].depth = 1 })
           = Cardinality({ a \in Submitted(c, 1) : ~a.is_existing })
      /\ Cardinality(InsertedIn(c, "courses"))
           <= Cardinality({ a \in Submitted(c, 1) : ~a.is_existing })
      /\ \A a \in Submitted(c, 1) :
           a.is_existing =>
             LET m == Get(call[c].node_id_mapping, a.id)
             IN  /\ a.id \in SkippedFor(c, "already_exists")
                 /\ a.id \notin CreatedIds(c)
                 /\ (\E id \in DOMAIN stored_map_nodes :
                       IsCourseNode(stored_map_nodes[id], a.name, call[c].domain_id))
                      => m # None
                 /\ m # None =>
                      /\ m \in DOMAIN map_nodes
                      /\ IsCourseNode(map_nodes[m], a.name, call[c].domain_id)
                      /\ \A b \in Submitted(c, 2) :
                           (~b.is_existing /\ b.parent_id = a.id) =>
                             \E e \in Range(call[c].created_nodes) :
                               /\ e.path_node_id = b.id
                               /\ e.type = "chapter"
                               /\ map_nodes[e.map_node_id].parent_id = m
                               /\ map_nodes[e.map_node_id].depth = 2
                               /\ e.parent_course_id = map_nodes[m].course_id

\* C10 witness: a level-1 node marked is_existing was mapped to the depth-1
\* node stored before the call, and a level-2 child was created under it
C10_Witness ==
  /\ call["c1"].pc = "returned"
  /\ \E a \in Submitted("c1", 1) :
       /\ a.is_existing
       /\ Get(call["c1"].node_id_mapping, a.id) = 1
       /\ a.id \in SkippedFor("c1", "already_exists")
       /\ \E e \in Range(call["c1"].created_nodes) :
            /\ e.type = "chapter"
            /\ map_nodes[e.map_node_id].parent_id = 1
            /\ e.chapter_id # None


(* ------------------------- resuming after a failure ---------------------- *)

\* the submission sent again after a failed call: the same nodes, those that
\* the failed call had created now marked is_existing
Resubmission(nodes, created) ==
  [ i \in DOMAIN nodes |->
      IF nodes[i].id \in created
        THEN [nodes[i] EXCEPT !.is_existing = TRUE]
        ELSE nodes[i] ]

\* the caller resumes: after accept_path raised on a failed insert, it calls
\* accept_path again (lines 24-38) with the resubmission and the same domain
Retry(c, failed) ==
  /\ call[failed].pc = "raised"
  /\ call[failed].error = "PersistenceFailure"
  /\ Start(c, { Resubmission(call[failed].nodes, CreatedIds(failed)) },
              { call[failed].domain })

\* a call of accept_path that fails part-way, followed by the resuming call
NextRetry ==
  \/ Next
  \/ Retry("c2", "c1")
  \/ ResolveDomain("c2")
  \/ Level1Existing("c2")
  \/ CreateCourseNode("c2")
  \/ InsertCourse("c2")
  \/ LinkCourse("c2")
  \/ Level2Existing("c2")
  \/ ParentNotFound("c2")
  \/ SelectParentCourse("c2")
  \/ CreateChapterNode("c2")
  \/ CountChapters("c2")
  \/ InsertChapter("c2")
  \/ InsertJob("c2")
  \/ LinkJob("c2")

SpecRetry == Init /\ [][NextRetry]_vars

(* -------------------------------- C11 ----------------------------------- *)

\* the map nodes that the two calls created for a submitted node
MapNodesOfPathNode(p) ==
  { e.map_node_id :
      e \in { k \in Range(call["c1"].created_nodes)
                    \cup Range(call["c2"].created_nodes) : k.path_node_id = p } }

\* a submitted level-2 node whose parent is a level-1 node of the submission,
\* neither marked is_existing in the first submission
NewChild(b) ==
  /\ b.level = 2
  /\ ~b.is_existing
  /\ \E a \in Submitted("c1", 1) : a.id = b.parent_id /\ ~a.is_existing

\* the resuming call has returned
Resumed ==
  /\ call["c1"].pc = "raised"
  /\ call["c1"].error = "PersistenceFailure"
  /\ call["c2"].pc = "returned"

\* C11: once the resuming call has returned, it has created nothing for the
\* nodes the failed call had created, and every submitted level-1 node and
\* every level-2 node under one (none marked is_existing at first) has exactly
\* one map node, the level-2 nodes with exactly one generation job each.
C11_ResumeMaterializesOnce ==
  Resumed =>
    /\ CreatedIds("c2") \cap CreatedIds("c1") = {}
    /\ \A a \in Submitted("c1", 1) :
         ~a.is_existing => Cardinality(MapNodesOfPathNode(a.id)) = 1
    /\ \A b \in Submitted("c1", 2) :
         NewChild(b) =>
           /\ Cardinality(MapNodesOfPathNode(b.id)) = 1
           /\ \A id \in MapNodesOfPathNode(b.id) :
                Cardinality(JobsOfNode(id)) = 1

\* the part of C11 that the code keeps: nothing is created twice and every
\* such node has exactly one map node
C11_NodesOnce ==
  Resumed =>
    /\ CreatedIds("c2") \cap CreatedIds("c1") = {}
    /\ \A n \in Submitted("c1", 1) \cup Submitted("c1", 2) :
         ((n.level = 1 /\ ~n.is_existing) \/ NewChild(n)) =>
           Cardinality(MapNodesOfPathNode(n.id)) = 1

\* the resuming call returned after the first call had failed at the job
\* insert of a level-2 node
C11_ResumedAfterJobFailure ==
  /\ Resumed
  /\ "content_generation_jobs" \in call["c1"].no_data
  /\ \E b \in Submitted("c1", 2) :
       NewChild(b) /\ b.id \in SkippedFor("c2", "already_exists")


(* -------------------------------- C12 ----------------------------------- *)

\* accept_path lines 133-143: the counts of the returned result
result(c) ==
  [ success         |-> TRUE,
    batch_id        |-> call[c].batch_id,
    total_new_nodes |-> Len(call[c].created_nodes),
    total_jobs      |-> Len(call[c].generation_jobs) ]

\* every submitted node is a level-1 node or a level-2 node that references
\* a level-1 node of the submission, none marked is_existing
AllNew(c) ==
  \A n \in Range(call[c].nodes) :
    /\ ~n.is_existing
    /\ n.level \in {1, 2}
    /\ n.level = 2 => \E a \in Submitted(c, 1) : a.id = n.parent_id

\* the entries of created_nodes of a type
CreatedOfType(c, type) ==
  { e \in Range(call[c].created_nodes) : e.type = type }

\* C12: a call that returned on k new level-1 nodes and m new level-2 nodes
\* under them, with every insert giving a row, created k depth-1 map nodes,
\* each linked to a course record of its own, m depth-2 map nodes, each with a
\* chapter record of its own in the parent's course and exactly one job,
\* m jobs in all and no skip; it reports total_new_nodes = k+m, total_jobs = m.
C12_AllNewCounts ==
  \A c \in AllCalls :
    (call[c].pc = "returned" /\ call[c].no_data = {} /\ AllNew(c)) =>
      LET k == Cardinality(Submitted(c, 1))
          m == Cardinality(Submitted(c, 2))
          co == CreatedOfType(c, "course")
          ch == CreatedOfType(c, "chapter")
      IN  /\ Cardinality({ e.map_node_id : e \in co }) = k
          /\ Cardinality({ e.map_node_id : e \in ch }) = m
          /\ Cardinality(InsertedIn(c, "map_nodes")) = k + m
          /\ Cardinality(InsertedIn(c, "courses")) = k
          /\ Cardinality(InsertedIn(c, "chapters")) = m
          /\ Cardinality(InsertedIn(c, "content_generation_jobs")) = m
          /\ \A e \in co :
               /\ map_nodes[e.map_node_id].depth = 1
               /\ e.course_id \in InsertedIn(c, "courses")
               /\ map_nodes[e.map_node_id].course_id = e.course_id
               /\ \A f \in co : f.course_id = e.course_id => f = e
          /\ \A e \in ch :
               /\ map_nodes[e.map_node_id].depth = 2
               /\ e.chapter_id \in InsertedIn(c, "chapters")
               /\ chapters[e.chapter_id].course_id
                    = map_nodes[map_nodes[e.map_node_id].parent_id].course_id
               /\ \A f \in ch : f.chapter_id = e.chapter_id => f = e
               /\ Cardinality(JobsOfNode(e.map_node_id)) = 1
          /\ call[c].skipped_nodes = <<>>
          /\ result(c).total_new_nodes = k + m
          /\ result(c).total_jobs = m

\* C12 witness: the call returned on one new level-1 node and two new level-2
\* children, every insert having given a row
C12_Witness ==
  /\ call["c1"].pc = "returned"
  /\ call["c1"].no_data = {}
  /\ AllNew("c1")
  /\ Cardinality(Submitted("c1", 1)) = 1
  /\ Cardinality(Submitted("c1", 2)) = 2
  /\ result("c1").total_new_nodes = 3
  /\ result("c1").total_jobs = 2


(* --------------------------- concurrent calls ---------------------------- *)

\* a submission that targets the stored course "A" of domain "x": the
\* level-1 node marked is_existing, and n new level-2 nodes under it
ConcPath(n) ==
  [ i \in 1..(n + 1) |->
      IF i = 1
      THEN [id |-> 1, name |-> "A", level |-> 1, parent_id |-> None,
            is_existing |-> TRUE]
      ELSE [id |-> i, name |-> "B", level |-> 2, parent_id |-> 1,
            is_existing |-> FALSE] ]

\* the steps of one call on such a submission
ConcCall(c, paths) ==
  \/ Start(c, paths, {"x"})
  \/ ResolveDomain(c)
  \/ Level1Existing(c)
  \/ SelectParentCourse(c)
  \/ CreateChapterNode(c)
  \/ CountChapters(c)
  \/ InsertChapter(c)
  \/ InsertJob(c)
  \/ LinkJob(c)

\* two calls of accept_path whose datastore requests interleave: one creates
\* up to MaxConcChapters chapters in the course, the other creates one
NextConc ==
  \/ ConcCall("c1", { ConcPath(n) : n \in 1..MaxConcChapters })
  \/ ConcCall("c2", { ConcPath(1) })

SpecConc == Init /\ [][NextConc]_vars

(* -------------------------------- C13 ----------------------------------- *)

\* two chapter rows of one course with the same sort_order
Collide(r1, r2) ==
  /\ r1 # r2
  /\ chapters[r1].course_id = chapters[r2].course_id
  /\ chapters[r1].sort_order = chapters[r2].sort_order

\* C13: the chapter rows that one call inserts into a course have pairwise
\* different sort_order (each count it reads includes its own earlier rows);
\* rows of equal sort_order in one course come from different calls.
C13_CollisionOnlyAcrossCalls ==
  \A c \in AllCalls :
    \A r1, r2 \in InsertedIn(c, "chapters") : ~Collide(r1, r2)

\* C13 witness: both calls read the same count and each inserted a chapter
\* row of the same course with the same sort_order
C13_Witness ==
  \E r1 \in InsertedIn("c1", "chapters"), r2 \in InsertedIn("c2", "chapters") :
    Collide(r1, r2)


(* ---------------------------- get_batch_status --------------------------- *)

\* the status and progress_percent a job row can carry: as inserted
\* (pending, 0), while generating (generator.py sets 10 .. 90), completed
\* (100), or failed at some point of the generation
JobStates ==
  { <<"pending", 0>>, <<"processing", 10>>, <<"processing", 75>>,
    <<"completed", 100>>, <<"failed", 0>>, <<"failed", 50>> }

\* the job rows of batch 2: n rows, with ids 6 .. 5+n, for the stored node 2
BatchJobs(n) ==
  { [ id \in 6..(5 + n) |->
        [job_data(2, "x", 2, 1) EXCEPT !.status = st[id][1],
                                       !.progress_percent = st[id][2]] ] :
      st \in [6..(5 + n) -> JobStates] }

\* the store when the status is asked: the stored rows and a batch of jobs
InitBatch ==
  /\ map_nodes = stored_map_nodes
  /\ courses = stored_courses
  /\ chapters = stored_chapters
  /\ \E n \in 0..MaxJobs :
       \E batch \in BatchJobs(n) : content_generation_jobs = batch @@ stored_jobs
  /\ slug_column \in BOOLEAN
  /\ nextId = 6 + MaxJobs
  /\ nextBatch = 3
  /\ call = [c \in AllCalls |-> IdleCall]
  /\ InitAside

\* the sum of a function's values over a finite set
RECURSIVE SumOver(_, _)
SumOver(f, S) ==
  IF S = {} THEN 0
  ELSE LET x == CHOOSE y \in S : TRUE IN f[x] + SumOver(f, S \ {x})

\* round(num / den, 2) in hundredths: the nearest hundredth, a tie to the
\* even one
round2(num, den) ==
  LET q == (100 * num) \div den
      r == (100 * num) % den
  IN  IF 2 * r > den \/ (2 * r = den /\ q % 2 = 1) THEN q + 1 ELSE q

\* mutant of job_progress: a failed job counts as done
job_progress_failed_done(j) ==
  IF j.status \in {"completed", "failed"} THEN 100
  ELSE IF j.status = "processing" THEN j.progress_percent
  ELSE 0

\* get_batch_status lines 361-365: what one job adds to total_progress
job_progress(j) ==
  IF j.status = "completed" THEN 100
  ELSE IF j.status = "processing" THEN j.progress_percent
  ELSE 0

\* mutant of all_completed: failed jobs do not count as finished
all_completed_without_failed(completed, failed, total) == completed = total

\* get_batch_status line 384
all_completed(completed, failed, total) == completed + failed = total

\* get_batch_status lines 346-398; overall_progress is held in hundredths
get_batch_status(batch_id) ==
  LET jobs == { id \in DOMAIN content_generation_jobs :
                  content_generation_jobs[id].batch_id = batch_id }
      completed == Cardinality({ id \in jobs :
                     content_generation_jobs[id].status = "completed" })
      failed    == Cardinality({ id \in jobs :
                     content_generation_jobs[id].status = "failed" })
      total     == Cardinality(jobs)
      total_progress ==
        SumOver([ id \in jobs |-> job_progress(content_generation_jobs[id]) ],
                jobs)
  IN  [ batch_id         |-> batch_id,
        overall_progress |-> IF total > 0 THEN round2(total_progress, total)
                             ELSE 0,
        completed_count  |-> completed,
        failed_count     |-> failed,
        total_count      |-> total,
        all_completed    |-> all_completed(completed, failed, total),
        jobs             |->
          { [ job_id           |-> id,
              node_id          |-> content_generation_jobs[id].node_id,
              node_name        |->
                IF content_generation_jobs[id].node_id \in DOMAIN map_nodes
                THEN map_nodes[content_generation_jobs[id].node_id].name
                ELSE "Unknown",
              status           |-> content_generation_jobs[id].status,
              progress_percent |-> content_generation_jobs[id].progress_percent ]
            : id \in jobs } ]

\* a caller asks for the status of a batch: the stored one (1), the one
\* drawn (2) or one without jobs (3)
GetBatchStatus ==
  /\ \E batch_id \in {1, 2, 3} : batch_status' = get_batch_status(batch_id)
  /\ UNCHANGED <<db, slug_column, nextId, nextBatch, call,
                 response_text, extracted, req>>

NextBatch == GetBatchStatus

SpecBatch == InitBatch /\ [][NextBatch]_vars


(* -------------------------------- C14 ----------------------------------- *)

\* a status has been returned
Asked == batch_status.batch_id # None

\* the stored jobs of the batch whose status was returned, and those of them
\* in one of the given statuses
AskedJobs ==
  { id \in DOMAIN content_generation_jobs :
      content_generation_jobs[id].batch_id = batch_status.batch_id }

AskedJobsIn(statuses) ==
  { id \in AskedJobs : content_generation_jobs[id].status \in statuses }

\* every job of the batch, and there is one, is completed or failed
AllFinished ==
  /\ Asked
  /\ AskedJobs # {}
  /\ AskedJobs = AskedJobsIn({"completed", "failed"})

\* v (in hundredths) is num / den rounded to two decimals
IsRounded(v, num, den) ==
  LET d == v * den - 100 * num
  IN  2 * (IF d < 0 THEN -d ELSE d) <= den

\* C14 as stated: when every job of the batch is completed or failed, the
\* status has all_completed = true and overall_progress = 100.0.
C14_AsStated ==
  AllFinished =>
    /\ batch_status.all_completed
    /\ batch_status.overall_progress = 10000

\* C14 amended: when every job of the batch is completed or failed, the
\* status has all_completed = true and overall_progress is the percentage of
\* completed jobs, rounded to two decimals: 100.0 only if no job failed.
C14_FinishedBatch ==
  AllFinished =>
    /\ batch_status.all_completed
    /\ IsRounded(batch_status.overall_progress,
                 100 * Cardinality(AskedJobsIn({"completed"})),
                 Cardinality(AskedJobs))
    /\ batch_status.overall_progress = 10000 <=> AskedJobsIn({"failed"}) = {}

\* C14 witness: the status of a batch of three jobs, two completed and one
\* failed: all_completed with overall_progress 66.67
C14_Witness ==
  /\ AllFinished
  /\ Cardinality(AskedJobs) = 3
  /\ Cardinality(AskedJobsIn({"completed"})) = 2
  /\ batch_status.all_completed
  /\ batch_status.overall_progress = 6667

(* -------------------------------- C15 ----------------------------------- *)

\* the sum over the jobs of the batch of 100 if completed, progress_percent
\* if processing, 0 otherwise
WeightSum ==
  SumOver([ id \in AskedJobs |->
              IF content_generation_jobs[id].status = "completed" THEN 100
              ELSE IF content_generation_jobs[id].status = "processing"
                   THEN content_generation_jobs[id].progress_percent
                   ELSE 0 ],
          AskedJobs)

\* the counts of the status are those of the stored jobs, and all_completed
\* is true exactly when completed_count + failed_count = total_count
CountsAgree ==
  /\ batch_status.total_count = Cardinality(AskedJobs)
  /\ batch_status.completed_count = Cardinality(AskedJobsIn({"completed"}))
  /\ batch_status.failed_count = Cardinality(AskedJobsIn({"failed"}))
  /\ batch_status.all_completed
       <=> (batch_status.completed_count + batch_status.failed_count
              = batch_status.total_count)

\* C15 as stated: overall_progress is exactly the weighted sum divided by the
\* job count (0 without jobs), within 0..100, and all_completed is true
\* exactly when completed_count + failed_count = total_count.
C15_AsStated ==
  Asked =>
    /\ batch_status.overall_progress * Cardinality(AskedJobs) = 100 * WeightSum
    /\ AskedJobs = {} => batch_status.overall_progress = 0
    /\ batch_status.overall_progress \in 0..10000
    /\ CountsAgree

\* C15 amended: overall_progress is the weighted sum divided by the job
\* count, rounded to two decimals (0 without jobs), within 0..100, and
\* all_completed is true exactly when completed_count + failed_count =
\* total_count.
C15_OverallProgress ==
  Asked =>
    /\ AskedJobs # {} =>
         IsRounded(batch_status.overall_progress, WeightSum,
                   Cardinality(AskedJobs))
    /\ AskedJobs = {} => batch_status.overall_progress = 0
    /\ batch_status.overall_progress \in 0..10000
    /\ CountsAgree

\* C15 witness: the status of a batch with a completed, a processing and a
\* pending job, whose quotient 175 / 3 is not a whole number of hundredths
C15_Witness ==
  /\ Asked
  /\ Cardinality(AskedJobs) = 3
  /\ WeightSum = 175
  /\ batch_status.overall_progress = 5833
  /\ ~batch_status.all_completed

\* the status of a batch without jobs: no progress, and all_completed
C15_EmptyBatchReached ==
  /\ Asked
  /\ AskedJobs = {}
  /\ batch_status.overall_progress = 0
  /\ batch_status.all_completed


(* ------------------ extract_json_from_llm_response: texts ---------------- *)

\* A text is a sequence of symbols.  A symbol is one character, or a run of
\* characters that holds no character the function looks at on its own.
Q     == "\""        \* the double quote
BS    == "\\"        \* the backslash
NL    == "\n"        \* the line feed
SP    == " "         \* the space
FENCE == "~~~"       \* stands for three backticks, the code fence marker
                     \* (backticks occur in threes)

\* str.strip and the regular expressions' \s: the whitespace characters
Whitespace == {SP, NL}

\* the characters after a backslash that json accepts in a string: the
\* quote, the backslash, and the t of the word "true" (a tab, then "rue")
Escapable == {Q, BS, "true"}

\* the outcome of a parsing step that failed
Fail == [ok |-> FALSE, pos |-> 0, val |-> <<>>]

\* the outcome of a parsing step that read the value val and stopped at pos
Done_(pos, val) == [ok |-> TRUE, pos |-> pos, val |-> val]

\* json (WHITESPACE.match): the first position at or after i that holds no
\* whitespace
RECURSIVE SkipWs(_, _)
SkipWs(s, i) ==
  IF i <= Len(s) /\ s[i] \in Whitespace THEN SkipWs(s, i + 1) ELSE i

\* json (scanstring): the position of the quote that closes the string whose
\* content starts at j, or 0 when the string is not terminated, holds a
\* control character or an invalid escape
RECURSIVE StringEnd(_, _)
StringEnd(s, j) ==
  IF j > Len(s) THEN 0
  ELSE IF s[j] = Q THEN j
  ELSE IF s[j] = BS
       THEN IF j + 1 <= Len(s) /\ s[j + 1] \in Escapable
            THEN StringEnd(s, j + 2) ELSE 0
  ELSE IF s[j] = NL THEN 0
  ELSE StringEnd(s, j + 1)

\* json: a string literal at position i (s[i] is the quote); its value is
\* written as the literal itself
ParseString(s, i) ==
  LET e == StringEnd(s, i + 1)
  IN  IF e = 0 THEN Fail ELSE Done_(e + 1, SubSeq(s, i, e))

\* json (NUMBER_RE): the end of the run of digits that starts at i
RECURSIVE NumberEnd(_, _)
NumberEnd(s, i) ==
  IF i + 1 <= Len(s) /\ s[i + 1] = "1" THEN NumberEnd(s, i + 1) ELSE i

\* the elements of a set of positions in increasing order
RECURSIVE Ascending(_)
Ascending(S) ==
  IF S = {} THEN <<>>
  ELSE LET m == CHOOSE x \in S : \A y \in S : x <= y
       IN  <<m>> \o Ascending(S \ {m})

\* a dict built from the members read: a key keeps the place of its first
\* occurrence and the value of its last one
Dedup(members) ==
  LET first == { i \in DOMAIN members :
                   \A j \in 1..(i - 1) : members[j][1] # members[i][1] }
      last(i) == CHOOSE j \in DOMAIN members :
                   /\ members[j][1] = members[i][1]
                   /\ \A k \in (j + 1)..Len(members) :
                        members[k][1] # members[i][1]
      order == Ascending(first)
  IN  [ n \in DOMAIN order |->
          <<members[order[n]][1], members[last(order[n])][2]>> ]

\* the value of an object, written without whitespace
RECURSIVE EmitMembers(_)
EmitMembers(members) ==
  IF members = <<>> THEN <<>>
  ELSE members[1][1] \o <<":">> \o members[1][2]
       \o (IF Len(members) > 1 THEN <<",">> ELSE <<>>)
       \o EmitMembers(Tail(members))

EmitObject(members) == <<"{">> \o EmitMembers(Dedup(members)) \o <<"}">>

\* json (scan_once, JSONArray, JSONObject): the value that starts at position
\* i; the value read is written without whitespace
RECURSIVE ParseValue(_, _), ParseElems(_, _, _), ParseMembers(_, _, _)
ParseValue(s, i) ==
  IF i > Len(s) THEN Fail
  ELSE IF s[i] = Q THEN ParseString(s, i)
  ELSE IF s[i] = "1" THEN Done_(NumberEnd(s, i) + 1, SubSeq(s, i, NumberEnd(s, i)))
  ELSE IF s[i] = "true" THEN Done_(i + 1, <<"true">>)
  ELSE IF s[i] = "["
       THEN LET j == SkipWs(s, i + 1)
            IN  IF j <= Len(s) /\ s[j] = "]" THEN Done_(j + 1, <<"[", "]">>)
                ELSE ParseElems(s, j, <<"[">>)
  ELSE IF s[i] = "{"
       THEN LET j == SkipWs(s, i + 1)
            IN  IF j <= Len(s) /\ s[j] = "}" THEN Done_(j + 1, <<"{", "}">>)
                ELSE ParseMembers(s, j, <<>>)
  ELSE Fail

ParseElems(s, j, acc) ==
  LET v == ParseValue(s, j)
      k == SkipWs(s, v.pos)
  IN  IF ~v.ok \/ k > Len(s) THEN Fail
      ELSE IF s[k] = "," THEN ParseElems(s, SkipWs(s, k + 1), acc \o v.val \o <<",">>)
      ELSE IF s[k] = "]" THEN Done_(k + 1, acc \o v.val \o <<"]">>)
      ELSE Fail

ParseMembers(s, j, acc) ==
  IF j > Len(s) \/ s[j] # Q THEN Fail
  ELSE LET key == ParseString(s, j)
           k   == SkipWs(s, key.pos)
       IN  IF ~key.ok \/ k > Len(s) \/ s[k] # ":" THEN Fail
           ELSE LET v == ParseValue(s, SkipWs(s, k + 1))
                    m == SkipWs(s, v.pos)
                    all == Append(acc, <<key.val, v.val>>)
                IN  IF ~v.ok \/ m > Len(s) THEN Fail
                    ELSE IF s[m] = "," THEN ParseMembers(s, SkipWs(s, m + 1), all)
                    ELSE IF s[m] = "}" THEN Done_(m + 1, EmitObject(all))
                    ELSE Fail

\* json.loads: the value of the whole text, whitespace around it allowed;
\* not ok when json.loads raises JSONDecodeError
loads(s) ==
  LET v == ParseValue(s, SkipWs(s, 1))
  IN  IF v.ok /\ SkipWs(s, v.pos) > Len(s) THEN v ELSE Fail


(* --------------- extract_json_from_llm_response: the steps --------------- *)

\* str.find: the first position at or after i that holds the symbol, or 0
RECURSIVE IndexOf(_, _, _)
IndexOf(s, sym, i) ==
  IF i > Len(s) THEN 0
  ELSE IF s[i] = sym THEN i ELSE IndexOf(s, sym, i + 1)

\* str.rfind: the last position that holds the symbol, or 0
RECURSIVE LastIndexOf(_, _, _)
LastIndexOf(s, sym, i) ==
  IF i < 1 THEN 0
  ELSE IF s[i] = sym THEN i ELSE LastIndexOf(s, sym, i - 1)

\* str.strip
RECURSIVE RStrip(_)
RStrip(s) ==
  IF s # <<>> /\ s[Len(s)] \in Whitespace
  THEN RStrip(SubSeq(s, 1, Len(s) - 1)) ELSE s

strip(s) == RStrip(SubSeq(s, SkipWs(s, 1), Len(s)))

\* the symbols of s at the positions of the set, in their order
AtPositions(s, S) ==
  LET order == Ascending(S) IN [ n \in DOMAIN order |-> s[order[n]] ]

\* lines 627-629: the group of the first match of the fence expression, the
\* text between the first fence (and a "json" right after it) and the next
\* fence; stripped
fenced_text(s) ==
  LET f1 == IndexOf(s, FENCE, 1)
      f2 == IndexOf(s, FENCE, f1 + 1)
      g  == IF f1 + 1 <= Len(s) /\ s[f1 + 1] = "json" THEN f1 + 2 ELSE f1 + 1
  IN  strip(SubSeq(s, g, f2 - 1))

\* lines 630-632: without a match, the markers are removed, "json" with them
\* where it follows one; stripped
without_markers(s) ==
  strip(AtPositions(s,
    { i \in DOMAIN s :
        /\ s[i] # FENCE
        /\ ~(s[i] = "json" /\ i > 1 /\ s[i - 1] = FENCE) }))

\* lines 624-632 (step 1)
remove_code_blocks(s) ==
  LET f1 == IndexOf(s, FENCE, 1)
  IN  IF f1 = 0 THEN s
      ELSE IF IndexOf(s, FENCE, f1 + 1) # 0 THEN fenced_text(s)
      ELSE without_markers(s)

\* lines 634-638 (step 2): the text from its first opening brace on
object_boundaries(s) ==
  IF s # <<>> /\ s[1] = "{" THEN s
  ELSE LET start == IndexOf(s, "{", 1)
       IN  IF start # 0 THEN SubSeq(s, start, Len(s)) ELSE s

\* line 650 (and 684): re.sub(r',(\s*[\]\}])', r'\1'): every comma whose
\* next symbol after whitespace is a closing bracket or brace is removed
fix_trailing_commas(s) ==
  AtPositions(s,
    { i \in DOMAIN s :
        ~(/\ s[i] = ","
          /\ LET j == SkipWs(s, i + 1)
             IN  j <= Len(s) /\ s[j] \in {"]", "}"}) })

\* lines 653-655: re.sub(first \s*\n\s*", first ,\n"): where a symbol of
\* firsts is followed by whitespace with a line feed and then a quote, the
\* whitespace becomes a comma and a line feed; matches do not overlap
RECURSIVE fix_missing_commas(_, _, _)
fix_missing_commas(s, firsts, i) ==
  IF i > Len(s) THEN <<>>
  ELSE LET j == SkipWs(s, i + 1)
       IN  IF /\ s[i] \in firsts
              /\ j <= Len(s)
              /\ s[j] = Q
              /\ \E k \in (i + 1)..(j - 1) : s[k] = NL
           THEN <<s[i], ",", NL, Q>> \o fix_missing_commas(s, firsts, j + 1)
           ELSE <<s[i]>> \o fix_missing_commas(s, firsts, i + 1)

\* lines 646-655 (step 4): the text with the common defects repaired
fixed_text(s) ==
  LET a == fix_trailing_commas(s)
      b == fix_missing_commas(a, {Q}, 1)
      c == fix_missing_commas(b, {"1"}, 1)
  IN  fix_missing_commas(c, {"true"}, 1)

\* line 664: re.search(r'"paths"\s*:\s*\['): the position of the bracket
\* that ends the first match, or 0
paths_match(s) ==
  LET ends == { b \in DOMAIN s :
                  /\ s[b] = "["
                  /\ \E i \in 1..(b - 4) :
                       /\ s[i] = Q /\ s[i + 1] = "paths" /\ s[i + 2] = Q
                       /\ LET k == SkipWs(s, i + 3)
                          IN  /\ k < b
                              /\ s[k] = ":"
                              /\ SkipWs(s, k + 1) = b }
  IN  IF ends = {} THEN 0 ELSE CHOOSE b \in ends : \A e \in ends : b <= e

\* lines 668-679: the position of the bracket that brings the count of
\* brackets back to 0, or 0; every bracket counts, inside a string or not
RECURSIVE bracket_end(_, _, _)
bracket_end(s, i, bracket_count) ==
  IF i > Len(s) THEN 0
  ELSE IF s[i] = "[" THEN bracket_end(s, i + 1, bracket_count + 1)
  ELSE IF s[i] = "]"
       THEN IF bracket_count = 1 THEN i
            ELSE bracket_end(s, i + 1, bracket_count - 1)
  ELSE bracket_end(s, i + 1, bracket_count)


\* lines 695-719: the counts of unclosed braces and brackets outside strings,
\* as <<brace_count, bracket_count>>; the symbol after a backslash is passed
\* over, a quote elsewhere opens or closes a string
RECURSIVE unclosed(_, _, _, _, _)
unclosed(s, i, in_string, brace_count, bracket_count) ==
  IF i > Len(s) THEN <<brace_count, bracket_count>>
  ELSE IF s[i] = BS
       THEN unclosed(s, i + 2, in_string, brace_count, bracket_count)
  ELSE IF s[i] = Q
       THEN unclosed(s, i + 1, ~in_string, brace_count, bracket_count)
  ELSE IF in_string
       THEN unclosed(s, i + 1, in_string, brace_count, bracket_count)
  ELSE IF s[i] = "{"
       THEN unclosed(s, i + 1, in_string, brace_count + 1, bracket_count)
  ELSE IF s[i] = "}"
       THEN unclosed(s, i + 1, in_string, brace_count - 1, bracket_count)
  ELSE IF s[i] = "["
       THEN unclosed(s, i + 1, in_string, brace_count, bracket_count + 1)
  ELSE IF s[i] = "]"
       THEN unclosed(s, i + 1, in_string, brace_count, bracket_count - 1)
  ELSE unclosed(s, i + 1, in_string, brace_count, bracket_count)

\* str * int: n copies of the symbol, none when n is not positive
Times(sym, n) == [ i \in 1..n |-> sym ]

\* lines 725-730: the text cut before its last comma and closed
repaired(s, last_comma, brace_count, bracket_count) ==
  SubSeq(s, 1, last_comma - 1)
    \o Times("]", bracket_count) \o Times("}", brace_count)

\* what the function does: it returns a value, or raises JSONDecodeError
Returned(step, value) == [status |-> "returned", step |-> step, value |-> value]
Raised == [status |-> "raised", step |-> 7, value |-> <<>>]

\* lines 662-691 (step 5): the value returned from the "paths" array, or
\* Raised when the step falls through
paths_array(s) ==
  LET start_pos == paths_match(s)
      end_pos   == IF start_pos = 0 THEN 0 ELSE bracket_end(s, start_pos, 0)
      array     == loads(fix_trailing_commas(SubSeq(s, start_pos, end_pos)))
  IN  IF start_pos # 0 /\ end_pos # 0 /\ array.ok
      THEN Returned(5, <<"{", Q, "paths", Q, ":">> \o array.val \o <<"}">>)
      ELSE Raised

\* lines 693-737 (step 6): the value of the truncated text once closed, or
\* Raised when the step falls through
truncation_repair(s) ==
  LET counts     == unclosed(s, 1, FALSE, 0, 0)
      last_comma == LastIndexOf(s, ",", Len(s))
      closed     == loads(repaired(s, last_comma, counts[1], counts[2]))
  IN  IF (counts[1] > 0 \/ counts[2] > 0) /\ last_comma > 1 /\ closed.ok
      THEN Returned(6, closed.val)
      ELSE Raised

\* mutant of extract_json_from_llm_response: the truncation repair is tried
\* before the salvage of the "paths" array
extract_repair_before_salvage(text) ==
  LET s      == object_boundaries(remove_code_blocks(text))
      direct == loads(s)
      fixed  == loads(fixed_text(s))
  IN  IF direct.ok THEN Returned(3, direct.val)
      ELSE IF fixed.ok THEN Returned(4, fixed.val)
      ELSE IF truncation_repair(s).status = "returned" THEN truncation_repair(s)
      ELSE paths_array(s)

\* extract_json_from_llm_response, lines 615-745
extract_json_from_llm_response(text) ==
  LET s      == object_boundaries(remove_code_blocks(text))
      direct == loads(s)
      fixed  == loads(fixed_text(s))
  IN  IF direct.ok THEN Returned(3, direct.val)
      ELSE IF fixed.ok THEN Returned(4, fixed.val)
      ELSE IF paths_array(s).status = "returned" THEN paths_array(s)
      ELSE truncation_repair(s)


(* ------------- extract_json_from_llm_response: response texts ------------ *)

\* the contents of the strings in a response: a letter, a closing bracket,
\* a comma before a closing brace, an opening brace, a fence marker, an
\* escaped quote
StringBodies ==
  { <<"a">>, <<"]">>, <<",", "}">>, <<"{">>, <<FENCE>>, <<BS, Q>> }

String(body) == <<Q>> \o body \o <<Q>>

\* the scalar JSON values: a number, a literal, the strings
Leaves == { <<"1">>, <<"true">> } \cup { String(b) : b \in StringBodies }

\* the sequences of at most n members of a set
SeqsUpTo(S, n) == UNION { [1..k -> S] : k \in 0..n }

\* the texts of a sequence, separated by commas
RECURSIVE Join(_)
Join(texts) ==
  IF texts = <<>> THEN <<>>
  ELSE texts[1] \o (IF Len(texts) > 1 THEN <<",">> ELSE <<>>)
       \o Join(Tail(texts))

Array(values) == <<"[">> \o Join(values) \o <<"]">>

Member(key, value) == String(<<key>>) \o <<":">> \o value

\* the elements of a "paths" array: objects of one field or of two
Items ==
  { <<"{">> \o Member("a", v) \o <<"}">> : v \in Leaves }
  \cup
  { <<"{">> \o Member("a", v) \o <<",">> \o Member("1", w) \o <<"}">> :
      v \in { <<"1">>, String(<<"a">>) }, w \in { <<"1">>, String(<<"]">>) } }

\* the arrays of scalars and the "paths" arrays
LeafArrays == { Array(vs) : vs \in SeqsUpTo(Leaves, MaxElems) }
ItemArrays == { Array(vs) : vs \in SeqsUpTo(Items, MaxElems) }

\* well-formed JSON documents that are objects
ObjectDocs ==
  { <<"{">> \o Member("a", v) \o <<"}">> : v \in Leaves \cup LeafArrays }
  \cup
  { <<"{">> \o Member("paths", a) \o <<"}">> : a \in LeafArrays \cup ItemArrays }

\* well-formed JSON texts of every kind
JsonTexts == ObjectDocs \cup LeafArrays \cup Leaves

\* a text inside a fenced block, tagged json or not
Fenced(text) ==
  { <<FENCE>> \o tag \o <<NL>> \o text \o <<NL, FENCE>> :
      tag \in { <<>>, <<"json">> } }

\* the text with a symbol put before position p
InsertAt(text, p, sym) ==
  SubSeq(text, 1, p - 1) \o <<sym>> \o SubSeq(text, p, Len(text))

\* the text without the symbol at position p
RemoveAt(text, p) == SubSeq(text, 1, p - 1) \o SubSeq(text, p + 1, Len(text))

\* a well-formed text with one comma put before a closing bracket or brace
\* (the texts that still decode have the comma inside a string: left out)
WithTrailingComma(text) ==
  { t \in { InsertAt(text, p, ",") :
              p \in { q \in DOMAIN text : text[q] \in {"]", "}"} } } :
      ~loads(t).ok }

\* the text cut after n symbols
Truncations(text) == { SubSeq(text, 1, n) : n \in 0..(Len(text) - 1) }

\* a document broken around its "paths" array: a comma is missing after the
\* array, or the document is preceded by prose and ends with the array
BrokenAroundPaths(array) ==
  { <<"{">> \o Member("paths", array) \o Member("a", <<"1">>) \o <<"}">>,
    <<"a", SP, "{">> \o Member("paths", array) }

\* texts without a JSON value
Prose == { <<>>, <<"a">>, <<"a", SP, "a">>, <<"a", ":", SP, "1">> }

\* a fenced block after a sentence that holds braces
AfterProse(text) ==
  { <<"a", SP, "{", "a", "}", ":", NL>> \o t : t \in Fenced(text) }

\* an object whose two members are on two lines, the comma between them
\* left out
MembersOnLines ==
  { <<"{">> \o Member("a", v) \o <<NL>> \o Member("1", w) \o <<"}">> :
      v \in Leaves, w \in { <<"1">>, String(<<",", "}">>) } }

\* a document cut inside an array that follows its "paths" array: only the
\* final ] and } are missing
CutAfterPaths ==
  LET arrays == { Array(vs) :
                    vs \in SeqsUpTo({ <<"1">>, String(<<"a">>) }, MaxElems) }
  IN  { <<"{">> \o Member("paths", a) \o <<",">>
          \o Member("a", SubSeq(b, 1, Len(b) - 1)) : a, b \in arrays }

\* the texts a model response is drawn from
Responses ==
  JsonTexts
  \cup CutAfterPaths
  \cup UNION { Fenced(t) : t \in JsonTexts }
  \cup UNION { AfterProse(t) : t \in Leaves \cup LeafArrays }
  \cup MembersOnLines
  \cup UNION { WithTrailingComma(t) : t \in JsonTexts }
  \cup UNION { Truncations(t) : t \in ObjectDocs }
  \cup UNION { BrokenAroundPaths(a) : a \in LeafArrays \cup ItemArrays }
  \cup Prose

(* --------------- extract_json_from_llm_response: the call ---------------- *)

\* a response text has arrived and the function has not run
InitExtract ==
  /\ map_nodes = stored_map_nodes
  /\ courses = stored_courses
  /\ chapters = stored_chapters
  /\ content_generation_jobs = stored_jobs
  /\ slug_column = FALSE
  /\ nextId = 6
  /\ nextBatch = 2
  /\ call = [c \in AllCalls |-> IdleCall]
  /\ batch_status = NoStatus
  /\ response_text \in Responses
  /\ extracted = NoResult
  /\ req = [r \in AllRequests |-> IdleRequest]

\* the call of extract_json_from_llm_response on the response text
Extract ==
  /\ extracted = NoResult
  /\ extracted' = extract_json_from_llm_response(response_text)
  /\ UNCHANGED <<db, slug_column, nextId, nextBatch, call, batch_status,
                 response_text, req>>

NextExtract == Extract

SpecExtract == InitExtract /\ [][NextExtract]_vars

\* the function has run on the response text
Extracted == extracted.status # "none"


(* -------------------------------- C16 ----------------------------------- *)

\* the text between the opening line and the closing line of a fenced block
\* tagged json
Unfenced(text) == SubSeq(text, 4, Len(text) - 2)

\* the text is a well-formed JSON text in a fenced block tagged json
FencedJson(text) ==
  /\ Len(text) >= 6
  /\ SubSeq(text, 1, 3) = <<FENCE, "json", NL>>
  /\ SubSeq(text, Len(text) - 1, Len(text)) = <<NL, FENCE>>
  /\ loads(Unfenced(text)).ok

\* C16: on a well-formed JSON text in a fenced block tagged json, the
\* function returns the value that the unfenced text decodes to.
C16_FencedJsonDecoded ==
  (Extracted /\ FencedJson(response_text)) =>
    /\ extracted.status = "returned"
    /\ extracted.value = loads(Unfenced(response_text)).val

(* -------------------------------- C17 ----------------------------------- *)

\* the positions of the text that hold a comma right before a closing
\* bracket or brace, without which the text is well-formed
TrailingCommas(text) ==
  { p \in DOMAIN text :
      /\ text[p] = ","
      /\ p < Len(text)
      /\ text[p + 1] \in {"]", "}"}
      /\ loads(RemoveAt(text, p)).ok }

\* C17: on a text that does not decode but would without one comma before a
\* closing bracket or brace, the function returns the value that the text
\* without that comma decodes to.
C17_TrailingCommaIgnored ==
  (Extracted /\ ~loads(response_text).ok) =>
    \A p \in TrailingCommas(response_text) :
      /\ extracted.status = "returned"
      /\ extracted.value = loads(RemoveAt(response_text, p)).val

(* -------------------------------- C18 ----------------------------------- *)

\* the positions of the text where a well-formed array follows "paths":
PathsArrays(text) ==
  { b \in DOMAIN text :
      /\ b > 4
      /\ SubSeq(text, b - 4, b) = <<Q, "paths", Q, ":", "[">>
      /\ ParseValue(text, b).ok }

\* the document does not decode, neither as it is nor normalized
Broken(text) ==
  LET s == object_boundaries(remove_code_blocks(text))
  IN  ~loads(s).ok /\ ~loads(fixed_text(s)).ok

\* C18: on a broken document that contains "paths": followed by a
\* well-formed array, the function returns {"paths": A}, A the decoded array.
C18_PathsArraySalvaged ==
  (Extracted /\ Broken(response_text)) =>
    \A b \in PathsArrays(response_text) :
      /\ extracted.status = "returned"
      /\ extracted.value =
           <<"{", Q, "paths", Q, ":">>
             \o ParseValue(response_text, b).val \o <<"}">>

(* -------------------------------- C19 ----------------------------------- *)

\* the text is an object whose only member is an array, cut after a complete
\* element of the array: only the final ] and } are missing
TruncatedAfterElement(text) ==
  LET b == IndexOf(text, "[", 1)
  IN  /\ b # 0
      /\ b < Len(text)
      /\ text[1] = "{"
      /\ ParseString(text, 2).ok
      /\ SubSeq(text, 1, b) = <<"{">> \o ParseString(text, 2).val \o <<":", "[">>
      /\ loads(text \o <<"]", "}">>).ok

\* the position where the last element of the cut array starts, the first
\* element being at position i
RECURSIVE TailElement(_, _)
TailElement(text, i) ==
  LET v == ParseValue(text, i)
  IN  IF v.pos > Len(text) THEN i ELSE TailElement(text, v.pos + 1)

\* the document without the last element of the cut array
WithoutTail(text) ==
  LET b == IndexOf(text, "[", 1)
      t == TailElement(text, b + 1)
  IN  SubSeq(text, 1, IF t = b + 1 THEN b ELSE t - 2) \o <<"]", "}">>

\* C19: on an object cut inside an array after a complete element, the
\* function returns the document without the last element of that array.
C19_TailElementRemoved ==
  (Extracted /\ TruncatedAfterElement(response_text)) =>
    /\ extracted.status = "returned"
    /\ extracted.value = loads(WithoutTail(response_text)).val

(* -------------------------------- C20 ----------------------------------- *)

\* C20: on a text without an opening brace, the function raises and returns
\* no value.
C20_NoBraceRaises ==
  (Extracted /\ \A i \in DOMAIN response_text : response_text[i] # "{") =>
    extracted.status = "raised"


(* -------------------------------- C21 ----------------------------------- *)

\* the text that steps 3 to 6 work on
Preprocessed(text) == object_boundaries(remove_code_blocks(text))

\* position p of the text lies inside a string literal: after a quote that
\* opens a string and before the quote that closes it, a quote after a
\* backslash being part of the string
RECURSIVE InsideString(_, _, _, _)
InsideString(s, p, i, in_string) ==
  IF i >= p THEN in_string
  ELSE IF in_string /\ s[i] = BS
       THEN IF i + 1 = p THEN TRUE ELSE InsideString(s, p, i + 2, in_string)
  ELSE IF s[i] = Q THEN InsideString(s, p, i + 1, ~in_string)
  ELSE InsideString(s, p, i + 1, in_string)

InString(s, p) == InsideString(s, p, 1, FALSE)

\* the commas that the trailing-comma repair removes from the text
RemovedCommas(s) ==
  { p \in DOMAIN s :
      /\ s[p] = ","
      /\ LET j == SkipWs(s, p + 1) IN j <= Len(s) /\ s[j] \in {"]", "}"} }

\* steps 3 and 4 have failed on the text
NeitherParses(s) == ~loads(s).ok /\ ~loads(fixed_text(s)).ok

\* C21: no scan of a repair step treats a symbol inside a string as
\* structural: the trailing-comma repair removes no comma of a string, the
\* bracket that ends the "paths" array is not in a string, and the comma
\* that the truncation repair cuts at is not in a string.
C21_ScansStringAware ==
  Extracted =>
    LET s == Preprocessed(response_text)
        start_pos == paths_match(s)
        end_pos == IF start_pos = 0 THEN 0 ELSE bracket_end(s, start_pos, 0)
        counts == unclosed(s, 1, FALSE, 0, 0)
        last_comma == LastIndexOf(s, ",", Len(s))
    IN  /\ ~loads(s).ok => \A p \in RemovedCommas(s) : ~InString(s, p)
        /\ (NeitherParses(s) /\ end_pos # 0) => ~InString(s, end_pos)
        /\ (NeitherParses(s) /\ paths_array(s) = Raised
              /\ (counts[1] > 0 \/ counts[2] > 0) /\ last_comma > 1)
             => ~InString(s, last_comma)

(* -------------------------------- C22 ----------------------------------- *)

\* C22: the function returns the result of the first strategy that parses,
\* in the order direct parse, normalization, salvage of the "paths" array,
\* truncation repair; a direct parse is returned as decoded; it raises
\* exactly when all four fail.
C22_FirstSuccessInOrder ==
  Extracted =>
    LET s       == Preprocessed(response_text)
        direct  == loads(s)
        fixed   == loads(fixed_text(s))
        salvage == paths_array(s)
        repair  == truncation_repair(s)
    IN  /\ direct.ok => extracted = Returned(3, direct.val)
        /\ (~direct.ok /\ fixed.ok) => extracted = Returned(4, fixed.val)
        /\ (~direct.ok /\ ~fixed.ok /\ salvage.status = "returned")
             => extracted = salvage
        /\ (~direct.ok /\ ~fixed.ok /\ salvage.status = "raised"
              /\ repair.status = "returned")
             => extracted = repair
        /\ extracted.status = "raised"
             <=> (/\ ~direct.ok
                  /\ ~fixed.ok
                  /\ salvage.status = "raised"
                  /\ repair.status = "raised")

\* C22 witness: the salvaged "paths" array was returned for a text on which
\* the truncation repair would have parsed too, to another value
C22_Witness ==
  /\ extracted.status = "returned"
  /\ extracted.step = 5
  /\ truncation_repair(Preprocessed(response_text)).status = "returned"
  /\ truncation_repair(Preprocessed(response_text)).value # extracted.value

\* every strategy returns for some text, and for some text none does
C22_NormalizedReached == extracted.step = 4 /\ extracted.status = "returned"
C22_RepairedReached == extracted.step = 6 /\ extracted.status = "returned"

(* -------------------------------- C23 ----------------------------------- *)

\* outside strings every closing bracket or brace of the text closes the
\* innermost open one, and none is left open at the end
RECURSIVE Nested(_, _, _, _)
Nested(s, i, in_string, open) ==
  IF i > Len(s) THEN open = <<>>
  ELSE IF in_string /\ s[i] = BS THEN Nested(s, i + 2, in_string, open)
  ELSE IF s[i] = Q THEN Nested(s, i + 1, ~in_string, open)
  ELSE IF in_string THEN Nested(s, i + 1, in_string, open)
  ELSE IF s[i] \in {"{", "["} THEN Nested(s, i + 1, in_string, <<s[i]>> \o open)
  ELSE IF s[i] \in {"}", "]"}
       THEN /\ open # <<>>
            /\ Head(open) = (IF s[i] = "}" THEN "{" ELSE "[")
            /\ Nested(s, i + 1, in_string, Tail(open))
  ELSE Nested(s, i + 1, in_string, open)

WellNested(s) == Nested(s, 1, FALSE, <<>>)

\* C23: when the truncation repair builds its candidate (an unclosed brace
\* or bracket, and a comma to cut at), the candidate's brackets and braces
\* are balanced and correctly nested.
C23_CandidateWellNested ==
  Extracted =>
    LET s == Preprocessed(response_text)
        counts == unclosed(s, 1, FALSE, 0, 0)
        last_comma == LastIndexOf(s, ",", Len(s))
    IN  (NeitherParses(s) /\ paths_array(s) = Raised
           /\ (counts[1] > 0 \/ counts[2] > 0) /\ last_comma > 1)
          => WellNested(repaired(s, last_comma, counts[1], counts[2]))

(* -------------------------------- C30 ----------------------------------- *)

\* C30: when the text holds an opening brace and the function returns, the
\* value returned is an object.
C30_ReturnsObject ==
  (/\ Extracted
   /\ \E i \in DOMAIN response_text : response_text[i] = "{"
   /\ extracted.status = "returned")
    => Head(extracted.value) = "{"


(* -------------------------------- C24 ----------------------------------- *)

\* the chapter rows of a course before the calls
StoredChaptersOf(course_id) ==
  { r \in DOMAIN stored_chapters : stored_chapters[r].course_id = course_id }

\* the chapter rows that the call inserted into the course of row r, up to
\* and including r (row ids grow in the order of insertion)
InsertedUpTo(c, r) ==
  { q \in InsertedIn(c, "chapters") :
      chapters[q].course_id = chapters[r].course_id /\ q <= r }

\* C24: with one call and no other writer, the n-th chapter record the call
\* creates under a course that had c chapter records has sort_order c + n,
\* the records follow the submission order, and each has
\* xp_reward = 100 + 25 * sort_order.
C24_SortOrderSequence ==
  /\ \A r \in InsertedIn("c1", "chapters") :
       /\ chapters[r].sort_order =
            Cardinality(StoredChaptersOf(chapters[r].course_id))
              + Cardinality(InsertedUpTo("c1", r))
       /\ chapters[r].xp_reward = 100 + 25 * chapters[r].sort_order
  /\ \A e, f \in CreatedOfType("c1", "chapter") :
       (/\ e.chapter_id # None
        /\ f.chapter_id # None
        /\ e.parent_course_id = f.parent_course_id
        /\ e.path_node_id < f.path_node_id)
         => chapters[e.chapter_id].sort_order < chapters[f.chapter_id].sort_order

\* C24 witness: the call returned after creating two chapter records under
\* the stored course 3, which had one: sort_order 2 and 3, rewards 150, 175
C24_Witness ==
  /\ call["c1"].pc = "returned"
  /\ \E r, q \in InsertedIn("c1", "chapters") :
       /\ chapters[r].course_id = 3
       /\ chapters[q].course_id = 3
       /\ chapters[r].sort_order = 2
       /\ chapters[r].xp_reward = 150
       /\ chapters[q].sort_order = 3
       /\ chapters[q].xp_reward = 175


(* ============== content generation jobs: the job endpoints =============== *)
(* The endpoints /content/generate, /content/retry/<job_id> and              *)
(* /api/path/accept run _start_generation, and with it process_job, inside   *)
(* the request.  A request is a sequence of steps, one for each write of the *)
(* job's status and for each select that decides how the request goes on;    *)
(* the requests a generator makes between two such steps are grouped with    *)
(* the step they follow.  The answer of the language model is an input of    *)
(* the step that asks for it: the call raises or returns a text, and the     *)
(* text has the expected content or not.                                     *)

\* the most requests that the first request slot serves, one after another
MaxRequests == 2

\* the requests a slot may serve: the second slot serves a single request
Quota(r) == IF r = "r1" THEN MaxRequests ELSE 1

\* the state that no step of a job endpoint writes
others == <<slug_column, nextBatch, call, batch_status, response_text,
            extracted>>

\* generation types sent to /content/generate; the endpoint stores any
\* string it is sent, and process_job knows no generator for the last one
\* ("chapters_only" runs as "description" does: it asks the model and writes
\* nothing but the job)
GenerationTypes == {"full_course", "description", "learning_outcomes"}

\* the store before the job requests: the stored rows and a topic node "B"
\* (id 6) of domain "x" that has no course
topic_map_nodes ==
  (6 :> node_data("B", "x", 1, None, "none")) @@ stored_map_nodes

\* row.update(updates) of a stored row
Update(row, updates) ==
  [k \in DOMAIN row \cup DOMAIN updates |->
     IF k \in DOMAIN updates THEN updates[k] ELSE row[k]]

\* _update_job: update the job record with the id (no row when none matches)
update_job(job_id, updates) ==
  IF job_id \in DOMAIN content_generation_jobs
  THEN [content_generation_jobs EXCEPT ![job_id] = Update(@, updates)]
  ELSE content_generation_jobs

\* create_generation_job lines 149-152: the jobs of the node whose status
\* is pending or processing
active_jobs(node_id) ==
  { id \in DOMAIN content_generation_jobs :
      /\ content_generation_jobs[id].node_id = node_id
      /\ content_generation_jobs[id].status \in {"pending", "processing"} }

\* job_data of create_generation_job; of the prompt context the model keeps
\* the id of the node, the one part a generator uses to address the store
generate_job_data(node_id, generation_type) ==
  [ node_id          |-> node_id,
    generation_type  |-> generation_type,
    status           |-> "pending",
    prompt_context   |-> node_id,
    progress_percent |-> 0 ]

\* the response of a request
Respond(rr, code, error) ==
  [rr EXCEPT !.pc = "done", !.code = code, !.error = error]

\* the request after _start_generation has returned: /content/generate
\* answers 202, /content/retry answers 200, and the accept endpoint starts
\* the generation of the next job of the result or answers 201
AfterGeneration(rr) ==
  IF rr.endpoint = "generate" THEN Respond(rr, 202, "")
  ELSE IF rr.endpoint = "retry" THEN Respond(rr, 200, "")
  ELSE IF rr.jobs = <<>> THEN Respond(rr, 201, "")
  ELSE [rr EXCEPT !.job_id = Head(rr.jobs).job_id,
                  !.jobs = Tail(rr.jobs),
                  !.context = None,
                  !.type = "",
                  !.pc = "job_select"]

\* a request arrives at a slot that serves none
NewRequest(r, endpoint) ==
  [IdleRequest EXCEPT !.endpoint = endpoint, !.served = req[r].served + 1]

Free(r) == req[r].pc \in {"idle", "done"} /\ req[r].served < Quota(r)

(* ------------------- /content/generate: the request ---------------------- *)

\* create_generation_job lines 121-147: the request body, the select of the
\* node and the checks of the node
ReceiveGenerate(r, nodes, types) ==
  /\ Free(r)
  /\ \E node_id \in nodes, generation_type \in types :
       LET rr == [NewRequest(r, "generate") EXCEPT
                    !.node_id = node_id, !.type = generation_type]
       IN  req' = [req EXCEPT ![r] =
             IF node_id = None
             THEN Respond(rr, 400, "node_id is required")
             ELSE IF node_id \notin DOMAIN map_nodes
             THEN Respond(rr, 404, "Node not found")
             ELSE IF map_nodes[node_id].depth > 1
             THEN Respond(rr, 400, "only available for depth 0-1 nodes")
             ELSE IF map_nodes[node_id].course_id # None
             THEN Respond(rr, 409, "This node already has a course")
             ELSE [rr EXCEPT !.pc = "active_job_select"]]
  /\ UNCHANGED <<db, nextId, others>>

\* create_generation_job lines 149-159: a node with an active job is refused
SelectActiveJob(r) ==
  /\ req[r].pc = "active_job_select"
  /\ req' = [req EXCEPT ![r] =
       IF active_jobs(req[r].node_id) # {}
       THEN Respond(@, 409,
              "A content generation job is already active for this node")
       ELSE [@ EXCEPT !.pc = "generate_insert"]]
  /\ UNCHANGED <<db, nextId, others>>

\* create_generation_job lines 161-207: read the context of the prompt and
\* insert the job
InsertGenerationJob(r) ==
  /\ req[r].pc = "generate_insert"
  /\ \E ok \in BOOLEAN :
       IF ok
       THEN /\ content_generation_jobs' =
                 (nextId :> generate_job_data(req[r].node_id, req[r].type))
                 @@ content_generation_jobs
            /\ nextId' = nextId + 1
            /\ req' = [req EXCEPT ![r].job_id = nextId,
                                  ![r].pc = "job_select"]
       ELSE /\ req' = [req EXCEPT ![r] =
                 Respond(@, 500, "Failed to create job")]
            /\ UNCHANGED <<content_generation_jobs, nextId>>
  /\ UNCHANGED <<map_nodes, courses, chapters, others>>

(* --------------------- /content/retry: the request ----------------------- *)

\* retry_job lines 340-348: select the job; only a failed job is retried
ReceiveRetry(r, ids) ==
  /\ Free(r)
  /\ \E job_id \in ids :
       LET rr == [NewRequest(r, "retry") EXCEPT !.job_id = job_id]
       IN  req' = [req EXCEPT ![r] =
             IF job_id \notin DOMAIN content_generation_jobs
             THEN Respond(rr, 404, "Job not found")
             ELSE IF content_generation_jobs[job_id].status # "failed"
             THEN Respond(rr, 400, "Can only retry failed jobs")
             ELSE [rr EXCEPT !.pc = "retry_reset"]]
  /\ UNCHANGED <<db, nextId, others>>

\* mutant of ResetJob: the reset writes the status only
ResetJobStatusOnly(r) ==
  /\ req[r].pc = "retry_reset"
  /\ content_generation_jobs' = update_job(req[r].job_id,
       [status |-> "pending"])
  /\ req' = [req EXCEPT ![r].pc = "job_select"]
  /\ UNCHANGED <<map_nodes, courses, chapters, nextId, others>>

\* retry_job lines 350-360: reset the job record
ResetJob(r) ==
  /\ req[r].pc = "retry_reset"
  /\ content_generation_jobs' = update_job(req[r].job_id,
       [ status           |-> "pending",
         progress_percent |-> 0,
         error_message    |-> "" ])
  /\ req' = [req EXCEPT ![r].pc = "job_select"]
  /\ UNCHANGED <<map_nodes, courses, chapters, nextId, others>>

(* ------------------------ process_job: the steps ------------------------- *)

\* process_job lines 47-55: select the job, read its context and its type
\* (job.get("prompt_context", {}): a job stored without a context has none)
SelectJob(r) ==
  /\ req[r].pc = "job_select"
  /\ LET id == req[r].job_id
     IN  req' = [req EXCEPT ![r] =
           IF id \notin DOMAIN content_generation_jobs
           THEN [@ EXCEPT !.pc = "job_failed", !.error = "Job not found"]
           ELSE [@ EXCEPT
                   !.context = Get(content_generation_jobs[id],
                                   "prompt_context"),
                   !.type = content_generation_jobs[id].generation_type,
                   !.pc = "job_processing"]]
  /\ UNCHANGED <<db, nextId, others>>

\* process_job lines 57-63: the job is processing
MarkProcessing(r) ==
  /\ req[r].pc = "job_processing"
  /\ content_generation_jobs' = update_job(req[r].job_id,
       [status |-> "processing", progress_percent |-> 10])
  /\ req' = [req EXCEPT ![r].pc = "dispatch"]
  /\ UNCHANGED <<map_nodes, courses, chapters, nextId, others>>

\* the progress a generator records before it asks the language model
first_progress(generation_type) ==
  IF generation_type \in {"full_course", "chapter_content"} THEN 20 ELSE 30

\* process_job lines 65-75 and the start of the generator: an unknown type
\* raises; a generator records its progress and is about to ask the model
BeginGeneration(r) ==
  /\ req[r].pc = "dispatch"
  /\ IF req[r].type \in {"full_course", "chapters_only", "description",
                         "chapter_content"}
     THEN /\ content_generation_jobs' = update_job(req[r].job_id,
               [progress_percent |-> first_progress(req[r].type)])
          /\ req' = [req EXCEPT ![r].pc = "llm"]
     ELSE /\ req' = [req EXCEPT ![r].pc = "job_failed",
                                ![r].error = "Unknown generation type"]
          /\ UNCHANGED content_generation_jobs
  /\ UNCHANGED <<map_nodes, courses, chapters, nextId, others>>

\* _call_gemini: the call raises or returns a text; _generate_full_course
\* and _generate_chapter_content then record that the text is being parsed
CallGemini(r) ==
  /\ req[r].pc = "llm"
  /\ \E answered \in BOOLEAN :
       IF answered
       THEN /\ content_generation_jobs' =
                 IF req[r].type \in {"full_course", "chapter_content"}
                 THEN update_job(req[r].job_id, [progress_percent |-> 50])
                 ELSE content_generation_jobs
            /\ req' = [req EXCEPT ![r].pc = "parse"]
       ELSE /\ req' = [req EXCEPT ![r].pc = "job_failed",
                                  ![r].error = "model call failed"]
            /\ UNCHANGED content_generation_jobs
  /\ UNCHANGED <<map_nodes, courses, chapters, nextId, others>>


\* an update of the map node with the id (no row when none matches; a
\* generator that has no node in its context asks for the id None)
update_node(id, updates) ==
  IF id \in DOMAIN map_nodes
  THEN [map_nodes EXCEPT ![id] = Update(@, updates)]
  ELSE map_nodes

\* chapter_record of _generate_full_course (lines 226-233) for a chapter
\* for which the generated content gives a title only
generated_chapter(course_id) ==
  [ course_id |-> course_id, title |-> "A", sort_order |-> 1,
    xp_reward |-> 100 ]

\* the generators after the model has answered: the text is parsed and its
\* keys are checked (a failure raises); _generate_full_course (lines 182-254)
\* inserts the course and its chapters and links the course to the node of
\* the context; _generate_chapter_content (lines 433-497) marks the node of
\* the context ready; the other generators write nothing
SaveContent(r) ==
  /\ req[r].pc = "parse"
  /\ LET id   == req[r].job_id
         node == req[r].context
     IN  \E valid \in BOOLEAN :
           IF ~valid
           THEN /\ req' = [req EXCEPT ![r].pc = "job_failed",
                                      ![r].error = "Invalid response format"]
                /\ UNCHANGED <<db, nextId>>
           ELSE IF req[r].type = "full_course"
           THEN \E inserted \in BOOLEAN, n \in 0..1 :
                  IF inserted
                  THEN /\ courses' = (nextId :>
                            course_data(
                              IF node \in DOMAIN map_nodes
                              THEN map_nodes[node].name ELSE "",
                              IF node \in DOMAIN map_nodes
                              THEN map_nodes[node].domain_id ELSE ""))
                            @@ courses
                       /\ chapters' =
                            IF n = 1
                            THEN (nextId + 1 :> generated_chapter(nextId))
                                 @@ chapters
                            ELSE chapters
                       /\ nextId' = nextId + 1 + n
                       /\ map_nodes' = update_node(node, [course_id |-> nextId])
                       /\ content_generation_jobs' =
                            update_job(id, [progress_percent |-> 90])
                       /\ req' = [req EXCEPT ![r].pc = "job_complete"]
                  ELSE /\ content_generation_jobs' =
                            update_job(id, [progress_percent |-> 60])
                       /\ req' = [req EXCEPT
                            ![r].pc = "job_failed",
                            ![r].error = "Failed to create course record"]
                       /\ UNCHANGED <<map_nodes, courses, chapters, nextId>>
           ELSE IF req[r].type = "chapter_content"
           THEN /\ map_nodes' =
                     update_node(node, [generation_status |-> "ready"])
                /\ content_generation_jobs' =
                     update_job(id, [progress_percent |-> 90])
                /\ req' = [req EXCEPT ![r].pc = "job_complete"]
                /\ UNCHANGED <<courses, chapters, nextId>>
           ELSE /\ req' = [req EXCEPT ![r].pc = "job_complete"]
                /\ UNCHANGED <<db, nextId>>
  /\ UNCHANGED others

\* process_job lines 80-91, and the return of _start_generation: the job
\* is completed
MarkCompleted(r) ==
  /\ req[r].pc = "job_complete"
  /\ content_generation_jobs' = update_job(req[r].job_id,
       [status |-> "completed", progress_percent |-> 100])
  /\ req' = [req EXCEPT ![r] = AfterGeneration(@)]
  /\ UNCHANGED <<map_nodes, courses, chapters, nextId, others>>

\* process_job lines 103-120: an exception marks the job failed and is
\* raised again
MarkFailed(r) ==
  /\ req[r].pc = "job_failed"
  /\ content_generation_jobs' = update_job(req[r].job_id,
       [status |-> "failed", error_message |-> req[r].error])
  /\ req' = [req EXCEPT ![r].pc = "start_failed"]
  /\ UNCHANGED <<map_nodes, courses, chapters, nextId, others>>

\* mutant of MarkFailedAgain: the failure of a job ends the request
MarkFailedAgainAbort(r) ==
  /\ req[r].pc = "start_failed"
  /\ content_generation_jobs' = update_job(req[r].job_id,
       [status |-> "failed", error_message |-> req[r].error])
  /\ req' = [req EXCEPT ![r] = Respond(@, 500, req[r].error)]
  /\ UNCHANGED <<map_nodes, courses, chapters, nextId, others>>

\* _start_generation lines 238-245: the exception of process_job is caught
\* and the job is marked failed once more
MarkFailedAgain(r) ==
  /\ req[r].pc = "start_failed"
  /\ content_generation_jobs' = update_job(req[r].job_id,
       [status |-> "failed", error_message |-> req[r].error])
  /\ req' = [req EXCEPT ![r] = AfterGeneration([@ EXCEPT !.error = ""])]
  /\ UNCHANGED <<map_nodes, courses, chapters, nextId, others>>

\* the steps of _start_generation for the job of the request
StartGeneration(r) ==
  \/ SelectJob(r)
  \/ MarkProcessing(r)
  \/ BeginGeneration(r)
  \/ CallGemini(r)
  \/ SaveContent(r)
  \/ MarkCompleted(r)
  \/ MarkFailed(r)
  \/ MarkFailedAgain(r)

(* ------------------- the job endpoints: specification -------------------- *)

\* node ids sent to /content/generate: none, the stored course node and
\* chapter node, the topic node, and an id that names no node
NodeRefs == {None, 1, 2, 6} \cup {nextId}

\* the store before the job requests
InitJobs ==
  /\ map_nodes = topic_map_nodes
  /\ courses = stored_courses
  /\ chapters = stored_chapters
  /\ content_generation_jobs = stored_jobs
  /\ slug_column = FALSE
  /\ nextId = 7
  /\ nextBatch = 2
  /\ call = [c \in AllCalls |-> IdleCall]
  /\ InitAside

\* requests to /content/generate and /content/retry, whose steps interleave
NextJobs ==
  \E r \in AllRequests :
    \/ ReceiveGenerate(r, NodeRefs, GenerationTypes)
    \/ SelectActiveJob(r)
    \/ InsertGenerationJob(r)
    \/ ReceiveRetry(r, DOMAIN content_generation_jobs \cup {nextId})
    \/ ResetJob(r)
    \/ StartGeneration(r)

SpecJobs == InitJobs /\ [][NextJobs]_vars


(* -------------------------------- C25 ----------------------------------- *)

\* the step in which slot r receives a request for /content/retry
RetryArrives(r) ==
  /\ req[r].pc \in {"idle", "done"}
  /\ req'[r].endpoint = "retry"
  /\ req'[r].served = req[r].served + 1

\* the step in which the retry request of slot r starts the generation
RetryStartsGeneration(r) ==
  /\ req[r].endpoint = "retry"
  /\ req'[r].endpoint = "retry"
  /\ req[r].pc # "job_select"
  /\ req'[r].pc = "job_select"

\* C25: retry_job restarts a job only when the status it reads is failed.
\* For a job read as pending, processing or completed the request is
\* answered 'Can only retry failed jobs' and no record is changed; for a job
\* read as failed the record is reset to pending with progress 0 and no
\* error, and only that reset starts the generation again.
C25_RetryOnlyFailed ==
  [][ \A r \in AllRequests :
        /\ RetryArrives(r) =>
             LET id == req'[r].job_id
             IN  id \in DOMAIN content_generation_jobs =>
                   /\ UNCHANGED db
                   /\ content_generation_jobs[id].status
                        \in {"pending", "processing", "completed"} =>
                          /\ req'[r].pc = "done"
                          /\ req'[r].code = 400
                          /\ req'[r].error = "Can only retry failed jobs"
                   /\ content_generation_jobs[id].status = "failed" =>
                          /\ req'[r].pc = "retry_reset"
                          /\ req'[r].code = 0
        /\ RetryStartsGeneration(r) =>
             LET id == req[r].job_id
             IN  /\ req[r].pc = "retry_reset"
                 /\ req'[r].job_id = id
                 /\ content_generation_jobs'[id].status = "pending"
                 /\ content_generation_jobs'[id].progress_percent = 0
                 /\ content_generation_jobs'[id].error_message = ""
                 /\ \A j \in DOMAIN content_generation_jobs \ {id} :
                      content_generation_jobs'[j] = content_generation_jobs[j]
    ]_vars

\* C25 witness: one retry request has reset a job that had failed with some
\* progress, and another has been refused for a job that had not failed
C25_Witness ==
  /\ req["r1"].endpoint = "retry"
  /\ req["r1"].pc = "job_select"
  /\ content_generation_jobs[req["r1"].job_id].status = "pending"
  /\ content_generation_jobs[req["r1"].job_id].progress_percent = 0
  /\ req["r2"].endpoint = "retry"
  /\ req["r2"].code = 400
  /\ req["r2"].error = "Can only retry failed jobs"


(* -------------------------------- C26 ----------------------------------- *)

\* the changes of status the lifecycle of a job allows
StatusMoves ==
  { <<"pending", "processing">>, <<"processing", "completed">>,
    <<"processing", "failed">>, <<"failed", "pending">> }

\* the step in which _start_generation returns to the request of slot r
GenerationReturns(r) ==
  /\ req[r].pc \in {"job_complete", "start_failed"}
  /\ req'[r] # req[r]

\* C26: the status of a job only moves pending -> processing -> completed
\* or failed, and failed -> pending; a completed job never changes status;
\* when a run of process_job on an existing job ends, the job is completed
\* or failed.
C26_StatusMoves ==
  [][ /\ \A id \in DOMAIN content_generation_jobs :
           LET old == content_generation_jobs[id].status
               new == content_generation_jobs'[id].status
           IN  /\ old # new => <<old, new>> \in StatusMoves
               /\ old = "completed" => new = "completed"
      /\ \A r \in AllRequests :
           (GenerationReturns(r)
              /\ req[r].job_id \in DOMAIN content_generation_jobs) =>
             content_generation_jobs'[req[r].job_id].status
               \in {"completed", "failed"}
    ]_vars


(* -------------------------------- C27 ----------------------------------- *)

\* the jobs of a node that are pending or processing
ActiveJobsOf(node_id) ==
  { id \in DOMAIN content_generation_jobs :
      /\ content_generation_jobs[id].node_id = node_id
      /\ content_generation_jobs[id].status \in {"pending", "processing"} }

\* C27: at no time does a map node have more than one generation job in
\* status pending or processing, however the steps of the requests to
\* /content/generate interleave.
C27_OneActiveJobPerNode ==
  \A node_id \in DOMAIN map_nodes : Cardinality(ActiveJobsOf(node_id)) <= 1


(* ------------------- /api/path/accept: the request ----------------------- *)

\* accept_path endpoint lines 406-419: accept_path has raised a ValueError and
\* the request is answered 400, or it has returned and the generation of the
\* jobs of its result is started, one job after the other
AcceptPathReturns(r, c) ==
  /\ req[r].pc = "idle"
  /\ call[c].pc \in {"returned", "raised"}
  /\ req' = [req EXCEPT ![r] =
       IF call[c].pc = "raised"
       THEN Respond(NewRequest(r, "accept"), 400, call[c].error)
       ELSE AfterGeneration([NewRequest(r, "accept") EXCEPT
                               !.jobs = call[c].generation_jobs])]
  /\ UNCHANGED <<db, nextId, others>>

\* one request to /api/path/accept: the call of accept_path and then the
\* generation of its jobs
NextAccept ==
  \/ Next
  \/ AcceptPathReturns("r1", "c1")
  \/ StartGeneration("r1")

SpecAccept == Init /\ [][NextAccept]_vars


(* -------------------------------- C28 ----------------------------------- *)

\* the jobs of the result of call c that the endpoint has processed to
\* completion
CompletedJobsOf(c) ==
  { i \in DOMAIN call[c].generation_jobs :
      content_generation_jobs[call[c].generation_jobs[i].job_id].status
        = "completed" }

\* C28: once the accept endpoint has processed the job of a chapter node to
\* completion, the generation_status of that node is 'ready'.
C28_CompletedNodeReady ==
  \A i \in CompletedJobsOf("c1") :
    map_nodes[call["c1"].generation_jobs[i].node_id].generation_status
      = "ready"


(* -------------------------------- C29 ----------------------------------- *)

\* the status of the i-th job of the result of call c
JobStatus(c, i) ==
  content_generation_jobs[call[c].generation_jobs[i].job_id].status

\* the jobs of the batch of call c
JobsOfBatch(c) ==
  { id \in DOMAIN content_generation_jobs :
      content_generation_jobs[id].batch_id = call[c].batch_id }

\* the accept request of slot r is generating the jobs of call c: the
\* position in the result of the job it works on
Position(r, c) == Len(call[c].generation_jobs) - Len(req[r].jobs)

====
